---------------------------- MODULE Spec2Model ----------------------------
(***************************************************************************)
(* Token lifecycle of the axum service: login, refresh-token rotation,     *)
(* logout (blacklist), protected routes, the Lua fixed-window rate limiter  *)
(* and the profile cache, all over one shared Redis store and one user     *)
(* directory.  Time is a clock in seconds; every Redis key carries the     *)
(* absolute second at which it expires.                                    *)
(***************************************************************************)
EXTENDS Integers, Sequences, FiniteSets, TLC

VARIABLES
    now,            \* Utc::now().timestamp()
    users,          \* the users table: id -> row
    refresh_store,  \* Redis keys "refresh_token:<token>"
    rate,           \* Redis keys "rate_limit:<action>:<subject>"
    blacklist,      \* Redis keys "blacklist:token:<jwt>"
    cache,          \* Redis keys "cache:user:profile:<id>"
    calls,          \* the requests in flight, one per task slot
    next_uuid,      \* number of refresh tokens generated by Uuid::new_v4()
    succ,           \* history: refresh token -> number of successful rotations
    minted,         \* history: the access tokens handed out so far
    revoked,        \* history: the access tokens for which logout wrote an entry
    windows,        \* history: per limiter key, the window the last call fell in
                    \* and the times of the calls the limiter let through
    written,        \* history: per cache key, the profile last handed to a cache write
    marked          \* history: refresh token -> second at which its used-marker was last written

vars == <<now, users, refresh_store, rate, blacklist, cache, calls, next_uuid, succ, minted, revoked, windows, written, marked>>

-----------------------------------------------------------------------------
(* Bounds of the model *)

NCalls == 2
MaxTokens == 3
MaxTime == 80
MaxCount == 11
RaceCount == 3
RaceTime == 20
FaultTime == 10
AccessCount == 2
FineTime == 20
LimitL == 2
LimitW == 3
LimiterTime == 7
LimiterCap == 4
JourneyCount == 2
AdminTokens == 2
AdminCount == 3
CounterCap == 2
CounterTokens == 2
GateTokens == 2
JourneyTokens == 2
MsgCount == 2
MsgTokens == 2

(* Program constants *)

ROTATION_GRACE_PERIOD == 10
REFRESH_LIMIT == 10
REFRESH_WINDOW == 60

(* Configuration (Config.jwt_expiration, Config.refresh_token_expiration) *)

jwt_expiration == 20
refresh_token_expiration == 30

REDIS_PREFIX_USED == "USED:"

Slots == 1..NCalls
UserIds == {"u1", "u2", "u3"}

-----------------------------------------------------------------------------
(* Redis primitives.  A key is present while now < exp_at; exp_at = -1 is a
   key without expiry. *)

Live(store, t) == {k \in DOMAIN store : store[k].exp_at < 0 \/ store[k].exp_at > t}

Expire(store, t) == [k \in Live(store, t) |-> store[k]]

SetEx(store, k, v, ttl, t) ==
    [x \in DOMAIN store \cup {k} |->
        IF x = k THEN [val |-> v, exp_at |-> t + ttl] ELSE store[x]]

Exists(store, k) == k \in DOMAIN store


(* INCR alone: the counter is never given an expiry *)
IncrExpire_NoExpire(store, k, window, t) ==
    LET old == IF k \in DOMAIN store THEN store[k] ELSE [val |-> 0, exp_at |-> -1]
    IN  [x \in DOMAIN store \cup {k} |->
            IF x = k THEN [val |-> old.val + 1, exp_at |-> old.exp_at] ELSE store[x]]

(* INCR and EXPIRE on every call: each call pushes the end of the window *)
IncrExpire_Sliding(store, k, window, t) ==
    LET old == IF k \in DOMAIN store THEN store[k] ELSE [val |-> 0, exp_at |-> -1]
    IN  [x \in DOMAIN store \cup {k} |->
            IF x = k THEN [val |-> old.val + 1, exp_at |-> t + window] ELSE store[x]]

(* INCR, and EXPIRE while the count is at most 2: the second call of a
   window sets the expiry again *)
IncrExpire_ExpireTwice(store, k, window, t) ==
    LET old   == IF k \in DOMAIN store THEN store[k] ELSE [val |-> 0, exp_at |-> -1]
        count == old.val + 1
    IN  [x \in DOMAIN store \cup {k} |->
            IF x = k
            THEN [val |-> count,
                  exp_at |-> IF count <= 2 THEN t + window ELSE old.exp_at]
            ELSE store[x]]

(* INCR, and EXPIRE when the count became 2: the first call leaves a key
   without expiry *)
IncrExpire_LateExpire(store, k, window, t) ==
    LET old   == IF k \in DOMAIN store THEN store[k] ELSE [val |-> 0, exp_at |-> -1]
        count == old.val + 1
    IN  [x \in DOMAIN store \cup {k} |->
            IF x = k
            THEN [val |-> count,
                  exp_at |-> IF count = 2 THEN t + window ELSE old.exp_at]
            ELSE store[x]]

(* The Lua script of check_rate_limit: INCR, and EXPIRE only when the count
   became 1, as one atomic step of the store. *)
IncrExpire(store, k, window, t) ==
    LET old   == IF k \in DOMAIN store THEN store[k] ELSE [val |-> 0, exp_at |-> -1]
        count == old.val + 1
    IN  [x \in DOMAIN store \cup {k} |->
            IF x = k
            THEN [val |-> count,
                  exp_at |-> IF count = 1 THEN t + window ELSE old.exp_at]
            ELSE store[x]]

(* a subject string chosen to look like another counter's key *)
Sneaky == "refresh_token:u1"

(* a string as the pieces between its colons *)
Segs(s) == IF s = Sneaky THEN <<"refresh_token", "u1">> ELSE <<s>>

(* the key made of the action alone: every subject shares one counter *)
RateKey_NoSubject(action_key, user_id) == <<"rate_limit">> \o Segs(action_key)

(* format!("rate_limit:{}:{}", action_key, user_id), piece by piece *)
RateKey(action_key, user_id) == <<"rate_limit">> \o Segs(action_key) \o Segs(user_id)

RateCount(store, k) == IF k \in DOMAIN store THEN store[k].val ELSE 0

(* a limiter that backs off: a rejected call deletes the counter *)
check_rate_limit_Reset(store, action_key, user_id, limit, window, t) ==
    LET k == RateKey(action_key, user_id)
        s == IncrExpire(store, k, window, t)
    IN  [store |-> IF s[k].val > limit
                   THEN [x \in DOMAIN s \ {k} |-> s[x]]
                   ELSE s,
         count |-> s[k].val,
         err   |-> IF s[k].val > limit THEN "RateLimitExceeded" ELSE "Ok"]

(* a limiter that lets the call counted limit + 1 through *)
check_rate_limit_Lenient(store, action_key, user_id, limit, window, t) ==
    LET k == RateKey(action_key, user_id)
        s == IncrExpire(store, k, window, t)
    IN  [store |-> s,
         count |-> s[k].val,
         err   |-> IF s[k].val > limit + 1 THEN "RateLimitExceeded" ELSE "Ok"]

(* check_rate_limit: the store after the script, the count it returned and
   the verdict on it. *)
check_rate_limit(store, action_key, user_id, limit, window, t) ==
    LET k == RateKey(action_key, user_id)
        s == IncrExpire(store, k, window, t)
    IN  [store |-> s,
         count |-> s[k].val,
         err   |-> IF s[k].val > limit THEN "RateLimitExceeded" ELSE "Ok"]

-----------------------------------------------------------------------------
(* Access tokens: the signed claims; two tokens with equal claims signed by
   the same secret are the same string. *)

NoToken == [sub |-> "", username |-> "", role |-> "", exp |-> 0, sig |-> "none"]

generate_access_token(user_id, username, role, t) ==
    [sub |-> user_id, username |-> username, role |-> role,
     exp |-> t + jwt_expiration, sig |-> "valid"]

NoOut == [access_token |-> NoToken, refresh_token |-> 0]

(* jsonwebtoken::decode with Validation::default(): the signature must match
   and exp must not lie more than the default leeway in the past *)
LEEWAY == 60

decode(token, t) == token.sig = "valid" /\ ~(token.exp < t - LEEWAY)

(* Tokens that were not signed with the server's secret, or are no JWT *)
Forged == [sub |-> "u1", username |-> "alice", role |-> "admin", exp |-> MaxTime + LEEWAY + 1, sig |-> "invalid"]

Malformed == [sub |-> "", username |-> "", role |-> "", exp |-> 0, sig |-> "malformed"]

(* The Authorization header as the two parsers of the service read it.
   auth_middleware and admin_guard take the token after the exact prefix
   "Bearer "; the TypedHeader<Authorization<Bearer>> extractor of the Claims
   extractor and of the logout handler matches the scheme without regard to
   case. *)
Schemes == {"Bearer", "bearer"}

strip_bearer(hdr) == hdr.scheme = "Bearer"

typed_bearer(hdr) == hdr.scheme \in Schemes

(* Refresh-token values: the user id, or the used-marker followed by it. *)
strip_prefix(val, prefix) == Len(val) > 1 /\ val[1] = prefix

UserIdOf(val) == IF strip_prefix(val, REDIS_PREFIX_USED) THEN val[2] ELSE val[1]

(* the used-marker alone, without the user id *)
used_val_Anon(user_id) == <<REDIS_PREFIX_USED, "">>

used_val(user_id) == <<REDIS_PREFIX_USED, user_id>>

-----------------------------------------------------------------------------
(* Requests in flight *)

NoHeader == [scheme |-> "none", token |-> NoToken]

NoProfile == [id |-> "", username |-> "", phone |-> "", role |-> "", is_active |-> FALSE]

(* at, was_revoked, was_verifiable, verified_at, verdict and handled record
   what held when the request arrived, when its token was verified, and
   whether the handler was entered; wstart and nth record the window a
   limiter call fell in and its place in that window; fetched and faults
   record whether the fetcher ran and which cache steps failed; was_rotated
   and in_grace record whether the refresh token presented had already been
   rotated, whether its used-marker had been written, and whether that was
   less than a grace period before *)
Idle == [op |-> "none", pc |-> "idle", rtok |-> 0, hdr |-> NoHeader, arg |-> "",
         user_id |-> "", is_used |-> FALSE, count |-> 0, checked |-> "",
         err |-> "", msg |-> "", out |-> NoOut, data |-> NoProfile,
         at |-> -1, was_revoked |-> FALSE, was_verifiable |-> FALSE,
         verified_at |-> -1, verdict |-> "", handled |-> FALSE,
         wstart |-> -1, nth |-> 0, fetched |-> FALSE, faults |-> {},
         fetch_val |-> NoProfile, was_rotated |-> FALSE, in_grace |-> FALSE,
         status |-> 0, was_marked |-> FALSE, password |-> "", phone |-> ""]

(* into_response with one message for every authentication failure *)
into_response_Uniform(e, m) ==
    CASE e \in {"DatabaseError", "RedisError", "InternalServerError"} ->
             [status |-> 500,
              msg |-> IF e = "DatabaseError" THEN "Database service error"
                      ELSE IF e = "RedisError" THEN "Cache service error"
                      ELSE "Internal server error"]
      [] e = "AuthError"         -> [status |-> 401, msg |-> "Authentication failed"]
      [] e = "Forbidden"         -> [status |-> 403, msg |-> m]
      [] e = "NotFound"          -> [status |-> 404, msg |-> m]
      [] e = "Conflict"          -> [status |-> 409, msg |-> m]
      [] e = "RateLimitExceeded" -> [status |-> 429, msg |-> m]
      [] OTHER                   -> [status |-> 400, msg |-> m]

(* AppError::into_response: the status and the message sent to the client.
   The three internal kinds answer with a fixed message, the others with the
   message they were built with; a rejection raised by an extractor of the
   framework, like ValidationError, answers 400 with its own text. *)
into_response(e, m) ==
    CASE e \in {"DatabaseError", "RedisError", "InternalServerError"} ->
             [status |-> 500,
              msg |-> IF e = "DatabaseError" THEN "Database service error"
                      ELSE IF e = "RedisError" THEN "Cache service error"
                      ELSE "Internal server error"]
      [] e = "AuthError"         -> [status |-> 401, msg |-> m]
      [] e = "Forbidden"         -> [status |-> 403, msg |-> m]
      [] e = "NotFound"          -> [status |-> 404, msg |-> m]
      [] e = "Conflict"          -> [status |-> 409, msg |-> m]
      [] e = "RateLimitExceeded" -> [status |-> 429, msg |-> m]
      [] OTHER                   -> [status |-> 400, msg |-> m]

Finish(c, r, e, m) ==
    [calls EXCEPT ![c] = [r EXCEPT !.pc = "done", !.err = e,
                                   !.msg = into_response(e, m).msg,
                                   !.status = into_response(e, m).status]]

FinishOk(c, r, o) ==
    [calls EXCEPT ![c] = [r EXCEPT !.pc = "done", !.err = "Ok", !.out = o]]

(* Task slots are interchangeable: a new request takes the first free one *)
NewCall(c) ==
    /\ calls[c].pc = "idle"
    /\ \A d \in 1..(c - 1) : calls[d].pc # "idle"

Returned(c) == calls[c].pc = "done"

ReturnedOk(c) == calls[c].pc = "done" /\ calls[c].err = "Ok"

-----------------------------------------------------------------------------
(* The user directory *)

InitUsers ==
    [u \in {"u1", "u2"} |->
        IF u = "u1"
        THEN [username |-> "alice", password |-> "secret1", phone |-> "none",
              role |-> "user", is_active |-> TRUE]
        ELSE [username |-> "root", password |-> "secret2", phone |-> "none",
              role |-> "admin", is_active |-> TRUE]]

Accounts == {"alice", "root", "mallory"}
Passwords == {"secret1", "secret2"}

(* Condition::any(): username = account OR phone = account *)
FindByAccount(dir, account) ==
    {u \in DOMAIN dir : dir[u].username = account \/ dir[u].phone = account}

-----------------------------------------------------------------------------
(* a sign-in that tests the active flag before the password *)
Login_ActiveFirst(c, account, password, fault) ==
    /\ NewCall(c)
    /\ RateCount(rate, RateKey("login", account)) < MaxCount
    /\ LET r     == [Idle EXCEPT !.op = "login", !.arg = account, !.password = password]
           lim   == check_rate_limit(rate, "login", account, 10, 60, now)
           found == FindByAccount(users, account)
           uid   == CHOOSE u \in found : TRUE
           user  == users[uid]
           token == next_uuid + 1
       IN  IF fault = "script"
           THEN /\ calls' = Finish(c, r, "RedisError", "Cache service error")
                /\ UNCHANGED <<rate, refresh_store, next_uuid, minted>>
           ELSE /\ rate' = lim.store
                /\ IF lim.err # "Ok"
                   THEN /\ calls' = Finish(c, r, lim.err, "Rate limit exceeded. Try again in 60 seconds.")
                        /\ UNCHANGED <<refresh_store, next_uuid, minted>>
                   ELSE IF fault = "db"
                   THEN /\ calls' = Finish(c, r, "DatabaseError", "Database service error")
                        /\ UNCHANGED <<refresh_store, next_uuid, minted>>
                   ELSE IF found = {}
                   THEN /\ calls' = Finish(c, r, "AuthError", "Invalid credentials")
                        /\ UNCHANGED <<refresh_store, next_uuid, minted>>
                   ELSE IF ~user.is_active
                   THEN /\ calls' = Finish(c, r, "Forbidden", "Account is disabled")
                        /\ UNCHANGED <<refresh_store, next_uuid, minted>>
                   ELSE IF user.password # password
                   THEN /\ calls' = Finish(c, r, "AuthError", "Invalid credentials")
                        /\ UNCHANGED <<refresh_store, next_uuid, minted>>
                   ELSE IF fault = "set"
                   THEN /\ calls' = Finish(c, r, "RedisError", "Cache service error")
                        /\ UNCHANGED <<refresh_store, next_uuid, minted>>
                   ELSE /\ next_uuid < MaxTokens
                        /\ next_uuid' = token
                        /\ refresh_store' =
                              SetEx(refresh_store, token, <<uid>>, refresh_token_expiration, now)
                        /\ minted' = minted \cup {generate_access_token(uid, user.username, user.role, now)}
                        /\ calls' = FinishOk(c, r,
                              [access_token |-> generate_access_token(uid, user.username, user.role, now),
                               refresh_token |-> token])
    /\ UNCHANGED <<now, users, blacklist, cache, succ, revoked, windows, written, marked>>


(* services::auth::login behind handlers::auth::login.  fault names the
   collaborator call that fails: "none", "script", "db" or "set". *)

Login(c, account, password, fault) ==
    /\ NewCall(c)
    /\ RateCount(rate, RateKey("login", account)) < MaxCount
    /\ LET r     == [Idle EXCEPT !.op = "login", !.arg = account, !.password = password]
           lim   == check_rate_limit(rate, "login", account, 10, 60, now)
           found == FindByAccount(users, account)
           uid   == CHOOSE u \in found : TRUE
           user  == users[uid]
           token == next_uuid + 1
       IN  IF fault = "script"
           THEN /\ calls' = Finish(c, r, "RedisError", "Cache service error")
                /\ UNCHANGED <<rate, refresh_store, next_uuid, minted>>
           ELSE /\ rate' = lim.store
                /\ IF lim.err # "Ok"
                   THEN /\ calls' = Finish(c, r, lim.err, "Rate limit exceeded. Try again in 60 seconds.")
                        /\ UNCHANGED <<refresh_store, next_uuid, minted>>
                   ELSE IF fault = "db"
                   THEN /\ calls' = Finish(c, r, "DatabaseError", "Database service error")
                        /\ UNCHANGED <<refresh_store, next_uuid, minted>>
                   ELSE IF found = {} \/ user.password # password
                   THEN /\ calls' = Finish(c, r, "AuthError", "Invalid credentials")
                        /\ UNCHANGED <<refresh_store, next_uuid, minted>>
                   ELSE IF ~user.is_active
                   THEN /\ calls' = Finish(c, r, "Forbidden", "Account is disabled")
                        /\ UNCHANGED <<refresh_store, next_uuid, minted>>
                   ELSE IF fault = "set"
                   THEN /\ calls' = Finish(c, r, "RedisError", "Cache service error")
                        /\ UNCHANGED <<refresh_store, next_uuid, minted>>
                   ELSE /\ next_uuid < MaxTokens
                        /\ next_uuid' = token
                        /\ refresh_store' =
                              SetEx(refresh_store, token, <<uid>>, refresh_token_expiration, now)
                        /\ minted' = minted \cup {generate_access_token(uid, user.username, user.role, now)}
                        /\ calls' = FinishOk(c, r,
                              [access_token |-> generate_access_token(uid, user.username, user.role, now),
                               refresh_token |-> token])
    /\ UNCHANGED <<now, users, blacklist, cache, succ, revoked, windows, written, marked>>

-----------------------------------------------------------------------------
(* services::auth::refresh, one action per await *)

(* RefreshGet with a missing key read as an empty value instead of an error *)
RefreshGet_Proceed(c, old_token, ok) ==
    /\ NewCall(c)
    /\ LET r == [Idle EXCEPT !.op = "refresh", !.rtok = old_token,
                              !.was_rotated = succ[old_token] >= 1,
                              !.was_marked = old_token \in DOMAIN marked,
                              !.in_grace = old_token \in DOMAIN marked
                                           /\ now < marked[old_token] + ROTATION_GRACE_PERIOD]
       IN  IF ~ok
           THEN calls' = Finish(c, r, "AuthError", "Invalid or expired refresh token")
           ELSE LET user_id_raw == IF Exists(refresh_store, old_token)
                                   THEN refresh_store[old_token].val ELSE <<"">>
                IN  calls' = [calls EXCEPT ![c] =
                        [r EXCEPT !.pc = "limit",
                                  !.user_id = UserIdOf(user_id_raw),
                                  !.is_used = strip_prefix(user_id_raw, REDIS_PREFIX_USED)]]
    /\ UNCHANGED <<now, users, refresh_store, rate, blacklist, cache, next_uuid, succ, minted, revoked, windows, written, marked>>

(* redis.get(refresh_key(old_token)): a missing key and a store error both
   map to the same AuthError *)
RefreshGet(c, old_token, ok) ==
    /\ NewCall(c)
    /\ LET r == [Idle EXCEPT !.op = "refresh", !.rtok = old_token,
                              !.was_rotated = succ[old_token] >= 1,
                              !.was_marked = old_token \in DOMAIN marked,
                              !.in_grace = old_token \in DOMAIN marked
                                           /\ now < marked[old_token] + ROTATION_GRACE_PERIOD]
       IN  IF ~ok \/ ~Exists(refresh_store, old_token)
           THEN calls' = Finish(c, r, "AuthError", "Invalid or expired refresh token")
           ELSE LET user_id_raw == refresh_store[old_token].val
                IN  calls' = [calls EXCEPT ![c] =
                        [r EXCEPT !.pc = "limit",
                                  !.user_id = UserIdOf(user_id_raw),
                                  !.is_used = strip_prefix(user_id_raw, REDIS_PREFIX_USED)]]
    /\ UNCHANGED <<now, users, refresh_store, rate, blacklist, cache, next_uuid, succ, minted, revoked, windows, written, marked>>

(* LimitVerdict with the used-marker tested before the throttle's verdict *)
LimitVerdict_UsedFirst(limit_err, is_used) ==
    IF is_used THEN "Conflict" ELSE limit_err

(* LimitVerdict with the throttle's verdict dropped *)
LimitVerdict_NoThrottle(limit_err, is_used) ==
    IF is_used THEN "Conflict" ELSE "Ok"

(* The order of the two tests after the lookup: the throttle first, then
   the used-marker *)
LimitVerdict(limit_err, is_used) ==
    IF limit_err # "Ok" THEN limit_err
    ELSE IF is_used THEN "Conflict"
    ELSE "Ok"

VerdictMsg(err) ==
    IF err = "Conflict" THEN "Token reused. Please login again."
    ELSE "Rate limit exceeded. Try again in 60 seconds."

(* the used-marker is examined first: a replay is refused without being
   counted *)
RefreshLimit_UsedFree(c, ok) ==
    /\ calls[c].pc = "limit" /\ calls[c].op = "refresh"
    /\ RateCount(rate, RateKey("refresh_token", calls[c].user_id)) < MaxCount
    /\ LET r   == calls[c]
           lim == check_rate_limit(rate, "refresh_token", r.user_id,
                                   REFRESH_LIMIT, REFRESH_WINDOW, now)
           rc  == [r EXCEPT !.count = lim.count]
       IN  IF ~ok
           THEN /\ calls' = Finish(c, r, "RedisError", "Cache service error")
                /\ UNCHANGED rate
           ELSE IF r.is_used
           THEN /\ calls' = Finish(c, r, "Conflict", VerdictMsg("Conflict"))
                /\ UNCHANGED rate
           ELSE /\ rate' = lim.store
                /\ IF lim.err # "Ok"
                   THEN calls' = Finish(c, rc, lim.err, VerdictMsg(lim.err))
                   ELSE calls' = [calls EXCEPT ![c] = [rc EXCEPT !.pc = "find"]]
    /\ UNCHANGED <<now, users, refresh_store, blacklist, cache, next_uuid, succ, minted, revoked, windows, written, marked>>

(* check_rate_limit(.., "refresh_token", user_id, 10, 60), then the is_used test *)
RefreshLimit(c, ok) ==
    /\ calls[c].pc = "limit" /\ calls[c].op = "refresh"
    /\ RateCount(rate, RateKey("refresh_token", calls[c].user_id)) < MaxCount
    /\ LET r   == calls[c]
           lim == check_rate_limit(rate, "refresh_token", r.user_id,
                                   REFRESH_LIMIT, REFRESH_WINDOW, now)
           rc  == [r EXCEPT !.count = lim.count]
       IN  IF ~ok
           THEN /\ calls' = Finish(c, r, "RedisError", "Cache service error")
                /\ UNCHANGED rate
           ELSE /\ rate' = lim.store
                /\ LET v == LimitVerdict(lim.err, r.is_used)
                   IN  IF v # "Ok"
                       THEN calls' = Finish(c, rc, v, VerdictMsg(v))
                       ELSE calls' = [calls EXCEPT ![c] = [rc EXCEPT !.pc = "find"]]
    /\ UNCHANGED <<now, users, refresh_store, blacklist, cache, next_uuid, succ, minted, revoked, windows, written, marked>>

(* RefreshFind with the used-marker written before the user is looked up *)
RefreshFind_MarkFirst(c, ok) ==
    /\ calls[c].pc = "find" /\ calls[c].op = "refresh"
    /\ refresh_store' = SetEx(refresh_store, calls[c].rtok, used_val(calls[c].user_id),
                              ROTATION_GRACE_PERIOD, now)
    /\ LET r == calls[c]
       IN  IF ~ok
           THEN calls' = Finish(c, r, "DatabaseError", "Database service error")
           ELSE IF r.user_id \notin DOMAIN users
           THEN calls' = Finish(c, r, "AuthError", "User not found")
           ELSE IF ~users[r.user_id].is_active
           THEN calls' = Finish(c, r, "Forbidden", "User inactive")
           ELSE calls' = [calls EXCEPT ![c] =
                    [r EXCEPT !.pc = "mark",
                              !.out = [NoOut EXCEPT !.access_token =
                                  [NoToken EXCEPT !.username = users[r.user_id].username,
                                                  !.role = users[r.user_id].role]]]]
    /\ UNCHANGED <<now, users, rate, blacklist, cache, next_uuid, succ, minted, revoked, windows, written, marked>>

(* users::Entity::find_by_id(uid) and the is_active test *)
RefreshFind(c, ok) ==
    /\ calls[c].pc = "find" /\ calls[c].op = "refresh"
    /\ LET r == calls[c]
       IN  IF ~ok
           THEN calls' = Finish(c, r, "DatabaseError", "Database service error")
           ELSE IF r.user_id \notin DOMAIN users
           THEN calls' = Finish(c, r, "AuthError", "User not found")
           ELSE IF ~users[r.user_id].is_active
           THEN calls' = Finish(c, r, "Forbidden", "User inactive")
           ELSE calls' = [calls EXCEPT ![c] =
                    [r EXCEPT !.pc = "mark",
                              !.out = [NoOut EXCEPT !.access_token =
                                  [NoToken EXCEPT !.username = users[r.user_id].username,
                                                  !.role = users[r.user_id].role]]]]
    /\ UNCHANGED <<now, users, refresh_store, rate, blacklist, cache, next_uuid, succ, minted, revoked, windows, written, marked>>

(* MarkUsed with the old key deleted instead of rewritten *)
MarkUsed_Drop(store, old_token, user_id, ok, t) ==
    IF ok THEN [k \in DOMAIN store \ {old_token} |-> store[k]]
          ELSE store

(* redis.set_ex(old key, used_val, ROTATION_GRACE_PERIOD).await.unwrap_or_default():
   the result of the write is discarded *)
MarkUsed(store, old_token, user_id, ok, t) ==
    IF ok THEN SetEx(store, old_token, used_val(user_id), ROTATION_GRACE_PERIOD, t)
          ELSE store

RefreshMark(c, ok) ==
    /\ calls[c].pc = "mark" /\ calls[c].op = "refresh"
    /\ refresh_store' = MarkUsed(refresh_store, calls[c].rtok, calls[c].user_id, ok, now)
    /\ marked' = IF ok
                 THEN [t \in DOMAIN marked \cup {calls[c].rtok} |->
                          IF t = calls[c].rtok THEN now ELSE marked[t]]
                 ELSE marked
    /\ calls' = [calls EXCEPT ![c].pc = "store"]
    /\ UNCHANGED <<now, users, rate, blacklist, cache, next_uuid, succ, minted, revoked, windows, written>>

(* RefreshStore with the old key put back when the new record cannot be
   written *)
RefreshStore_Rollback(c, ok) ==
    /\ calls[c].pc = "store" /\ calls[c].op = "refresh"
    /\ LET r           == calls[c]
           new_access  == generate_access_token(r.user_id, r.out.access_token.username,
                                                r.out.access_token.role, now)
           new_refresh == next_uuid + 1
       IN  IF ~ok
           THEN /\ calls' = Finish(c, [r EXCEPT !.out = NoOut], "RedisError", "Cache service error")
                /\ refresh_store' =
                      SetEx(refresh_store, r.rtok, <<r.user_id>>, refresh_token_expiration, now)
                /\ UNCHANGED <<next_uuid, succ, minted>>
           ELSE /\ next_uuid < MaxTokens
                /\ next_uuid' = new_refresh
                /\ refresh_store' =
                      SetEx(refresh_store, new_refresh, <<r.user_id>>, refresh_token_expiration, now)
                /\ succ' = [succ EXCEPT ![r.rtok] = @ + 1]
                /\ minted' = minted \cup {new_access}
                /\ calls' = FinishOk(c, r,
                      [access_token |-> new_access, refresh_token |-> new_refresh])
    /\ UNCHANGED <<now, users, rate, blacklist, cache, revoked, windows, written, marked>>

(* The client disconnects while refresh is waiting on the store or the
   database: the call's future is dropped where it stands, nothing more of it
   runs and no response is sent *)
Abandon(c) ==
    /\ calls[c].op = "refresh"
    /\ calls[c].pc \in {"limit", "find", "mark", "store"}
    /\ calls' = [calls EXCEPT ![c] = [@ EXCEPT !.pc = "done", !.err = "Abandoned", !.out = NoOut]]
    /\ UNCHANGED <<now, users, refresh_store, rate, blacklist, cache, next_uuid, succ, minted, revoked, windows, written, marked>>

(* generate_access_token, Uuid::new_v4(), redis.set_ex(new key, user_id, ..)? *)
RefreshStore(c, ok) ==
    /\ calls[c].pc = "store" /\ calls[c].op = "refresh"
    /\ LET r           == calls[c]
           new_access  == generate_access_token(r.user_id, r.out.access_token.username,
                                                r.out.access_token.role, now)
           new_refresh == next_uuid + 1
       IN  IF ~ok
           THEN /\ calls' = Finish(c, [r EXCEPT !.out = NoOut], "RedisError", "Cache service error")
                /\ UNCHANGED <<refresh_store, next_uuid, succ, minted>>
           ELSE /\ next_uuid < MaxTokens
                /\ next_uuid' = new_refresh
                /\ refresh_store' =
                      SetEx(refresh_store, new_refresh, <<r.user_id>>, refresh_token_expiration, now)
                /\ succ' = [succ EXCEPT ![r.rtok] = @ + 1]
                /\ minted' = minted \cup {new_access}
                /\ calls' = FinishOk(c, r,
                      [access_token |-> new_access, refresh_token |-> new_refresh])
    /\ UNCHANGED <<now, users, rate, blacklist, cache, revoked, windows, written, marked>>

-----------------------------------------------------------------------------
(* services::auth::logout behind handlers::auth::logout *)

(* an entry is written for every token that decodes, dead or not *)
Revocable_DecodeOnly(token, t) == decode(token, t)

(* the claims are read without verifying the token *)
Revocable_Unverified(token, t) == token.exp - t > 0

(* logout writes an entry when the token decodes and has time left *)
Revocable(token, t) == decode(token, t) /\ token.exp - t > 0

(* the entry is given the configured lifetime instead of the time left *)
Revoke_FullTtl(store, token, t) ==
    IF Revocable(token, t)
    THEN SetEx(store, token, "logout", jwt_expiration, t)
    ELSE store

(* the blacklist after logout(token) at time t *)
Revoke(store, token, t) ==
    IF Revocable(token, t)
    THEN SetEx(store, token, "logout", token.exp - t, t)
    ELSE store

Logout(c, hdr, ok) ==
    /\ NewCall(c)
    /\ LET r == [Idle EXCEPT !.op = "logout", !.hdr = hdr, !.at = now,
                              !.was_revoked = Exists(blacklist, hdr.token)]
       IN  IF ~typed_bearer(hdr)
           THEN /\ calls' = Finish(c, r, "HeaderRejection", "Header of type authorization was missing")
                /\ UNCHANGED <<blacklist, revoked>>
           ELSE IF ~ok /\ Revocable(hdr.token, now)
           THEN /\ calls' = Finish(c, r, "RedisError", "Cache service error")
                /\ UNCHANGED <<blacklist, revoked>>
           ELSE /\ blacklist' = Revoke(blacklist, hdr.token, now)
                /\ revoked' = IF hdr.token \in minted /\ now < hdr.token.exp
                              THEN revoked \cup {hdr.token} ELSE revoked
                /\ calls' = [calls EXCEPT ![c] =
                      [r EXCEPT !.pc = "done", !.err = "Ok", !.msg = "Logged out successfully"]]
    /\ UNCHANGED <<now, users, refresh_store, rate, cache, next_uuid, succ, minted, windows, written, marked>>

-----------------------------------------------------------------------------
(* The protected routes: GET /users/me ("get_me"), POST /users/me
   ("update_me") and POST /admin/register ("register") *)

Routes == {"get_me", "update_me", "register"}

(* EXISTS on a key the blacklist never holds *)
is_blacklisted_OtherKey(store, hdr) == strip_bearer(hdr) /\ Exists(store, <<"blacklist", hdr.token>>)

(* middleware::auth::auth_middleware: the blacklist check *)
is_blacklisted(store, hdr) == strip_bearer(hdr) /\ Exists(store, hdr.token)

(* a middleware that lets the request through when the blacklist cannot be
   read *)
AuthMiddleware_FailOpen(c, route, hdr, arg, ok) ==
    /\ NewCall(c)
    /\ LET r == [Idle EXCEPT !.op = route, !.hdr = hdr, !.arg = arg, !.at = now,
                              !.was_revoked = Exists(blacklist, hdr.token),
                              !.was_verifiable = decode(hdr.token, now)]
           inner == IF route = "register" THEN "guard" ELSE "claims"
       IN  IF ~strip_bearer(hdr)
           THEN calls' = [calls EXCEPT ![c] = [r EXCEPT !.pc = inner]]
           ELSE IF ~ok
           THEN calls' = [calls EXCEPT ![c] = [r EXCEPT !.pc = inner, !.faults = {"exists"}]]
           ELSE IF is_blacklisted(blacklist, hdr)
           THEN calls' = Finish(c, r, "AuthError", "Token has been revoked")
           ELSE calls' = [calls EXCEPT ![c] = [r EXCEPT !.pc = inner, !.checked = "blacklist"]]
    /\ UNCHANGED <<now, users, refresh_store, rate, blacklist, cache, next_uuid, succ, minted, revoked, windows, written, marked>>

AuthMiddleware(c, route, hdr, arg, ok) ==
    /\ NewCall(c)
    /\ LET r == [Idle EXCEPT !.op = route, !.hdr = hdr, !.arg = arg, !.at = now,
                              !.was_revoked = Exists(blacklist, hdr.token),
                              !.was_verifiable = decode(hdr.token, now)]
           inner == IF route = "register" THEN "guard" ELSE "claims"
       IN  IF ~strip_bearer(hdr)
           THEN calls' = [calls EXCEPT ![c] = [r EXCEPT !.pc = inner]]
           ELSE IF ~ok
           THEN calls' = Finish(c, [r EXCEPT !.faults = {"exists"}], "RedisError", "Cache service error")
           ELSE IF is_blacklisted(blacklist, hdr)
           THEN calls' = Finish(c, r, "AuthError", "Token has been revoked")
           ELSE calls' = [calls EXCEPT ![c] = [r EXCEPT !.pc = inner, !.checked = "blacklist"]]
    /\ UNCHANGED <<now, users, refresh_store, rate, blacklist, cache, next_uuid, succ, minted, revoked, windows, written, marked>>

(* a role string that does not parse is taken for the administrator *)
role_enum_DefaultAdmin(role) == IF role = "user" THEN "user" ELSE "admin"

(* UserRole::from_str(role).unwrap_or(UserRole::User) *)
role_enum(role) == IF role = "admin" THEN "admin" ELSE "user"

(* middleware::auth::admin_guard *)
AdminGuard(c) ==
    /\ calls[c].pc = "guard"
    /\ LET r == calls[c]
           v == [r EXCEPT !.verified_at = now]
       IN  IF ~strip_bearer(r.hdr)
           THEN calls' = Finish(c, r, "AuthError", "Missing token")
           ELSE IF ~decode(r.hdr.token, now)
           THEN calls' = Finish(c, [v EXCEPT !.verdict = "rejected"], "AuthError", "Invalid token")
           ELSE IF role_enum(r.hdr.token.role) # "admin"
           THEN calls' = Finish(c, [v EXCEPT !.verdict = "ok"], "Forbidden", "Requires Administrator privileges")
           ELSE calls' = [calls EXCEPT ![c] =
                             [v EXCEPT !.pc = "limit", !.verdict = "ok", !.handled = TRUE, !.user_id = r.arg]]
    /\ UNCHANGED <<now, users, refresh_store, rate, blacklist, cache, next_uuid, succ, minted, revoked, windows, written, marked>>

(* extractors::claims: Claims::from_request_parts *)
ClaimsExtractor(c) ==
    /\ calls[c].pc = "claims"
    /\ LET r == calls[c]
           v == [r EXCEPT !.verified_at = now]
       IN  IF ~typed_bearer(r.hdr)
           THEN calls' = Finish(c, r, "AuthError", "Missing or invalid Authorization header")
           ELSE IF ~decode(r.hdr.token, now)
           THEN calls' = Finish(c, [v EXCEPT !.verdict = "rejected"], "AuthError", "Invalid or expired token")
           ELSE calls' = [calls EXCEPT ![c] =
                             [v EXCEPT !.pc = "limit", !.verdict = "ok", !.handled = TRUE, !.user_id = r.hdr.token.sub]]
    /\ UNCHANGED <<now, users, refresh_store, rate, blacklist, cache, next_uuid, succ, minted, revoked, windows, written, marked>>

(* the rate_limit! line of each handler *)
RouteAction(route) ==
    IF route = "get_me" THEN "read_me" ELSE IF route = "update_me" THEN "update_me" ELSE "register"

RouteLimit(route) ==
    IF route = "get_me" THEN 60 ELSE IF route = "update_me" THEN 10 ELSE 5

RouteBody(route) ==
    IF route = "get_me" THEN "cache_get" ELSE IF route = "update_me" THEN "db_find" ELSE "insert"

HandlerLimit(c, ok) ==
    /\ calls[c].pc = "limit" /\ calls[c].op \in Routes
    /\ RateCount(rate, RateKey(RouteAction(calls[c].op), calls[c].user_id)) < MaxCount
    /\ LET r   == calls[c]
           lim == check_rate_limit(rate, RouteAction(r.op), r.user_id, RouteLimit(r.op), 60, now)
           rc  == [r EXCEPT !.count = lim.count]
       IN  IF ~ok
           THEN /\ calls' = Finish(c, r, "RedisError", "Cache service error")
                /\ UNCHANGED rate
           ELSE /\ rate' = lim.store
                /\ IF lim.err # "Ok"
                   THEN calls' = Finish(c, rc, lim.err, "Rate limit exceeded. Try again in 60 seconds.")
                   ELSE calls' = [calls EXCEPT ![c] = [rc EXCEPT !.pc = RouteBody(r.op)]]
    /\ UNCHANGED <<now, users, refresh_store, blacklist, cache, next_uuid, succ, minted, revoked, windows, written, marked>>

-----------------------------------------------------------------------------
(* utils::cache and services::user *)

CACHE_EXPIRE_USER_PROFILE == 86400

(* impl From<users::Model> for UserProfile *)
ProfileOf(id, row) ==
    [id |-> id, username |-> row.username, phone |-> row.phone,
     role |-> row.role, is_active |-> row.is_active]

(* the role written as the enum variant's name, not its lower-case rename *)
to_string_Pascal(profile) ==
    <<"json",
      [id |-> <<"str", profile.id>>,
       username |-> <<"str", profile.username>>,
       phone |-> IF profile.phone = "none" THEN <<"null", "">> ELSE <<"str", profile.phone>>,
       role |-> <<"str", IF profile.role = "admin" THEN "Admin" ELSE "User">>,
       is_active |-> <<"bool", IF profile.is_active THEN "true" ELSE "false">>]>>

(* serde_json::to_string of a UserProfile: the JSON object field by field;
   an Option is null or the string, the role is its lower-case name *)
to_string(profile) ==
    <<"json",
      [id |-> <<"str", profile.id>>,
       username |-> <<"str", profile.username>>,
       phone |-> IF profile.phone = "none" THEN <<"null", "">> ELSE <<"str", profile.phone>>,
       role |-> <<"str", profile.role>>,
       is_active |-> <<"bool", IF profile.is_active THEN "true" ELSE "false">>]>>

(* a stored value that is no JSON of a UserProfile *)
Garbage == <<"raw", "garbage">>

(* serde_json::from_str::<UserProfile> succeeds *)
parses(json_str) ==
    /\ json_str[1] = "json"
    /\ json_str[2].role[2] \in {"admin", "user"}
    /\ json_str[2].is_active[2] \in {"true", "false"}

from_str(json_str) ==
    [id |-> json_str[2].id[2],
     username |-> json_str[2].username[2],
     phone |-> IF json_str[2].phone[1] = "null" THEN "none" ELSE json_str[2].phone[2],
     role |-> json_str[2].role[2],
     is_active |-> (json_str[2].is_active[2] = "true")]

(* the read never answers from the cache *)
ReadHit_Never(store, k, ok) == FALSE

(* get_or_fetch, the match on redis.get: a hit is a value that was read,
   is not empty and deserializes *)
ReadHit(store, k, ok) ==
    ok /\ Exists(store, k) /\ store[k].val # <<>> /\ parses(store[k].val)

(* a failed cache write is raised to the caller *)
SetVerdict_Raise(ok) == IF ok THEN "Ok" ELSE "RedisError"

(* the result of the cache write is logged and dropped *)
SetVerdict(ok) == "Ok"

(* a read that touches the entry: a hit renews the entry's expiry *)
CacheGet_Touch(c, ok) ==
    /\ calls[c].pc = "cache_get"
    /\ LET r == calls[c]
       IN  IF ReadHit(cache, r.user_id, ok)
           THEN /\ calls' = [calls EXCEPT ![c] =
                      [r EXCEPT !.pc = "done", !.err = "Ok", !.data = from_str(cache[r.user_id].val)]]
                /\ cache' = [cache EXCEPT ![r.user_id].exp_at = now + CACHE_EXPIRE_USER_PROFILE]
           ELSE /\ calls' = [calls EXCEPT ![c] =
                      [r EXCEPT !.pc = "fetch",
                                !.faults = IF ~ok THEN @ \cup {"read"}
                                           ELSE IF Exists(cache, r.user_id) THEN @ \cup {"deserialize"}
                                           ELSE @]]
                /\ UNCHANGED cache
    /\ UNCHANGED <<now, users, refresh_store, rate, blacklist, next_uuid, succ, minted, revoked, windows, written, marked>>

(* get_or_fetch, the read: a hit returns the cached profile *)
CacheGet(c, ok) ==
    /\ calls[c].pc = "cache_get"
    /\ LET r == calls[c]
       IN  IF ReadHit(cache, r.user_id, ok)
           THEN calls' = [calls EXCEPT ![c] =
                    [r EXCEPT !.pc = "done", !.err = "Ok", !.data = from_str(cache[r.user_id].val)]]
           ELSE calls' = [calls EXCEPT ![c] =
                    [r EXCEPT !.pc = "fetch",
                              !.faults = IF ~ok THEN @ \cup {"read"}
                                         ELSE IF Exists(cache, r.user_id) THEN @ \cup {"deserialize"}
                                         ELSE @]]
    /\ UNCHANGED <<now, users, refresh_store, rate, blacklist, cache, next_uuid, succ, minted, revoked, windows, written, marked>>

(* get_or_fetch, the fetcher of get_user_profile: find_by_id *)
Fetch(c, ok) ==
    /\ calls[c].pc = "fetch"
    /\ LET r == calls[c]
       IN  IF ~ok
           THEN calls' = Finish(c, r, "DatabaseError", "Database service error")
           ELSE IF r.user_id \notin DOMAIN users
           THEN calls' = Finish(c, r, "NotFound", "User not found")
           ELSE calls' = [calls EXCEPT ![c] =
                    [r EXCEPT !.pc = "cache_set", !.fetched = TRUE,
                              !.fetch_val = ProfileOf(r.user_id, users[r.user_id]),
                              !.data = ProfileOf(r.user_id, users[r.user_id])]]
    /\ UNCHANGED <<now, users, refresh_store, rate, blacklist, cache, next_uuid, succ, minted, revoked, windows, written, marked>>

(* update_user_profile: find_by_id *)
DbFind(c, ok) ==
    /\ calls[c].pc = "db_find"
    /\ LET r == calls[c]
       IN  IF ~ok
           THEN calls' = Finish(c, r, "DatabaseError", "Database service error")
           ELSE IF r.user_id \notin DOMAIN users
           THEN calls' = Finish(c, r, "NotFound", "User not found")
           ELSE calls' = [calls EXCEPT ![c] = [r EXCEPT !.pc = "db_update"]]
    /\ UNCHANGED <<now, users, refresh_store, rate, blacklist, cache, next_uuid, succ, minted, revoked, windows, written, marked>>

(* update_user_profile: user_active.update(), which sets the phone column
   alone; the directory refuses a phone another row holds *)
DbUpdate(c, ok) ==
    /\ calls[c].pc = "db_update"
    /\ LET r == calls[c]
           taken == \E u \in DOMAIN users : u # r.user_id /\ users[u].phone = r.arg
       IN  IF ~ok \/ r.user_id \notin DOMAIN users \/ (r.arg # "none" /\ taken)
           THEN /\ calls' = Finish(c, r, "DatabaseError", "Database service error")
                /\ UNCHANGED users
           ELSE LET row == IF r.arg = "none" THEN users[r.user_id]
                           ELSE [users[r.user_id] EXCEPT !.phone = r.arg]
                IN  /\ users' = [users EXCEPT ![r.user_id] = row]
                    /\ calls' = [calls EXCEPT ![c] =
                          [r EXCEPT !.pc = "cache_set", !.data = ProfileOf(r.user_id, row)]]
    /\ UNCHANGED <<now, refresh_store, rate, blacklist, cache, next_uuid, succ, minted, revoked, windows, written, marked>>

(* the write-back of get_or_fetch and cache::set of update_user_profile:
   a failed write is logged and dropped *)
CacheSet(c, ok) ==
    /\ calls[c].pc = "cache_set"
    /\ LET r == calls[c]
       IN  /\ cache' = IF ok
                       THEN SetEx(cache, r.user_id, to_string(r.data), CACHE_EXPIRE_USER_PROFILE, now)
                       ELSE cache
           /\ written' = IF ok
                         THEN [k \in DOMAIN written \cup {r.user_id} |->
                                  IF k = r.user_id THEN r.data ELSE written[k]]
                         ELSE written
           /\ calls' = [calls EXCEPT ![c] =
                 [r EXCEPT !.pc = "done", !.err = SetVerdict(ok),
                           !.faults = IF ok THEN @ ELSE @ \cup {"write"}]]
    /\ UNCHANGED <<now, users, refresh_store, rate, blacklist, next_uuid, succ, minted, revoked, windows, marked>>

(* services::auth::register: insert a row with role User and is_active *)
FreeIds == UserIds \ DOMAIN users

Insert(c, password, phone, ok) ==
    /\ calls[c].pc = "insert"
    /\ LET r == [calls[c] EXCEPT !.password = password, !.phone = phone]
           dup == \E u \in DOMAIN users :
                     users[u].username = r.arg \/ (phone # "none" /\ users[u].phone = phone)
           id == CHOOSE u \in FreeIds : TRUE
       IN  IF ~ok
           THEN /\ calls' = Finish(c, r, "DatabaseError", "Database service error")
                /\ UNCHANGED users
           ELSE IF dup
           THEN /\ calls' = Finish(c, r, "Conflict", "Username or Phone already exists")
                /\ UNCHANGED users
           ELSE /\ FreeIds # {}
                /\ users' = [u \in DOMAIN users \cup {id} |->
                                IF u = id
                                THEN [username |-> r.arg, password |-> password, phone |-> phone,
                                      role |-> "user", is_active |-> TRUE]
                                ELSE users[u]]
                /\ calls' = [calls EXCEPT ![c] =
                      [r EXCEPT !.pc = "done", !.err = "Ok", !.msg = "User registered successfully"]]
    /\ UNCHANGED <<now, refresh_store, rate, blacklist, cache, next_uuid, succ, minted, revoked, windows, written, marked>>

(* services::auth::register called on its own *)
Register(c, username) ==
    /\ NewCall(c)
    /\ calls' = [calls EXCEPT ![c] =
                    [Idle EXCEPT !.op = "register_user", !.pc = "insert", !.arg = username]]
    /\ UNCHANGED <<now, users, refresh_store, rate, blacklist, cache, next_uuid, succ, minted, revoked, windows, written, marked>>

(* services::user::get_user_profile and update_user_profile called on their
   own *)
CacheSubjects == {"u1", "u3"}

Phones == {"none", "555"}

GetProfile(c, user_id) ==
    /\ NewCall(c)
    /\ calls' = [calls EXCEPT ![c] =
                    [Idle EXCEPT !.op = "get_profile", !.pc = "cache_get", !.user_id = user_id]]
    /\ UNCHANGED <<now, users, refresh_store, rate, blacklist, cache, next_uuid, succ, minted, revoked, windows, written, marked>>

UpdateProfile(c, user_id, phone) ==
    /\ NewCall(c)
    /\ calls' = [calls EXCEPT ![c] =
                    [Idle EXCEPT !.op = "update_profile", !.pc = "db_find",
                                 !.user_id = user_id, !.arg = phone]]
    /\ UNCHANGED <<now, users, refresh_store, rate, blacklist, cache, next_uuid, succ, minted, revoked, windows, written, marked>>

(* the value under a cache key is replaced by one that is empty or does not
   deserialize *)
Corrupt(k, v) ==
    /\ k \in DOMAIN cache
    /\ cache[k].val # v
    /\ cache' = [cache EXCEPT ![k].val = v]
    /\ UNCHANGED <<now, users, refresh_store, rate, blacklist, calls, next_uuid, succ, minted, revoked, windows, written, marked>>

-----------------------------------------------------------------------------
(* utils::limiter::check_rate_limit called on its own: the call is issued,
   and the store then runs its script as one step *)

LimiterSubjects == {"u1"}

LimitIssue(c, user_id) ==
    /\ NewCall(c)
    /\ calls' = [calls EXCEPT ![c] =
                    [Idle EXCEPT !.op = "limiter", !.pc = "script", !.user_id = user_id]]
    /\ UNCHANGED <<now, users, refresh_store, rate, blacklist, cache, next_uuid, succ, minted, revoked, windows, written, marked>>

(* the window a call at time t on key k falls in, and its place in it *)
WindowAt(k, window, t) ==
    IF k \in DOMAIN windows /\ t < windows[k].start + window
    THEN [start |-> windows[k].start, n |-> windows[k].n + 1]
    ELSE [start |-> t, n |-> 1]

(* the calls on key k let through so far, each as <<time, start of its window>> *)
Passed(k) == IF k \in DOMAIN windows THEN windows[k].oks ELSE <<>>

LimitScript(c, limit, window) ==
    /\ calls[c].pc = "script" /\ calls[c].op = "limiter"
    /\ LET r   == calls[c]
           k   == RateKey("limiter", r.user_id)
           lim == check_rate_limit(rate, "limiter", r.user_id, limit, window, now)
           w   == WindowAt(k, window, now)
       IN  /\ rate' = lim.store
           /\ windows' = [x \in DOMAIN windows \cup {k} |->
                             IF x = k
                             THEN [start |-> w.start, n |-> w.n,
                                   oks   |-> IF lim.err = "Ok"
                                             THEN Append(Passed(k), <<now, w.start>>)
                                             ELSE Passed(k)]
                             ELSE windows[x]]
           /\ LET rc == [r EXCEPT !.count = lim.count, !.wstart = w.start, !.nth = w.n]
              IN  calls' = IF lim.err = "Ok"
                           THEN FinishOk(c, rc, NoOut)
                           ELSE Finish(c, rc, lim.err, "Rate limit exceeded. Try again in 60 seconds.")
    /\ UNCHANGED <<now, users, refresh_store, blacklist, cache, next_uuid, succ, minted, revoked, written, marked>>

-----------------------------------------------------------------------------
(* The response is sent and the task slot is free again *)
Respond(c) ==
    /\ calls[c].pc = "done"
    /\ calls' = [calls EXCEPT ![c] = Idle]
    /\ UNCHANGED <<now, users, refresh_store, rate, blacklist, cache, next_uuid, succ, minted, revoked, windows, written, marked>>

(* Time passes; Redis drops the keys whose expiry has come *)
Tick(d) ==
    /\ now + d <= MaxTime
    /\ now' = now + d
    /\ refresh_store' = Expire(refresh_store, now + d)
    /\ rate' = Expire(rate, now + d)
    /\ blacklist' = Expire(blacklist, now + d)
    /\ cache' = Expire(cache, now + d)
    /\ UNCHANGED <<users, calls, next_uuid, succ, minted, revoked, windows, written, marked>>

(* The directory is changed from outside: a row is deleted *)
Remove(u) ==
    /\ u \in DOMAIN users
    /\ users' = [v \in DOMAIN users \ {u} |-> users[v]]
    /\ UNCHANGED <<now, refresh_store, rate, blacklist, cache, calls, next_uuid, succ, minted, revoked, windows, written, marked>>

(* The directory is changed from outside: an account is disabled or enabled *)
SetActive(u, b) ==
    /\ u \in DOMAIN users
    /\ users[u].is_active # b
    /\ users' = [users EXCEPT ![u].is_active = b]
    /\ UNCHANGED <<now, refresh_store, rate, blacklist, cache, calls, next_uuid, succ, minted, revoked, windows, written, marked>>

-----------------------------------------------------------------------------
Init ==
    /\ now = 0
    /\ users = InitUsers
    /\ refresh_store = <<>>
    /\ rate = <<>>
    /\ blacklist = <<>>
    /\ cache = <<>>
    /\ calls = [c \in Slots |-> Idle]
    /\ next_uuid = 0
    /\ succ = [t \in 0..(MaxTokens + 1) |-> 0]
    /\ minted = {}
    /\ revoked = {}
    /\ windows = <<>>
    /\ written = <<>>
    /\ marked = <<>>

Presented == 0..next_uuid

RefreshCount(c) == RateCount(rate, RateKey("refresh_token", calls[c].user_id))

(* Concurrent rotation with a healthy store and directory *)
NextRotate ==
    \/ \E c \in Slots : Login(c, "alice", "secret1", "none")
    \/ \E c \in Slots, t \in Presented : RefreshGet(c, t, TRUE)
    \/ \E c \in Slots : RefreshCount(c) < RaceCount /\ RefreshLimit(c, TRUE)
    \/ \E c \in Slots : RefreshFind(c, TRUE)
    \/ \E c \in Slots : RefreshMark(c, TRUE)
    \/ \E c \in Slots : RefreshStore(c, TRUE)
    \/ \E c \in Slots : Respond(c)
    \/ now < RaceTime /\ Tick(ROTATION_GRACE_PERIOD)

SpecRotate == Init /\ [][NextRotate]_vars

(* Concurrent rotation where any call to the store or the directory may fail *)
NextFaulty ==
    \/ \E c \in Slots : Login(c, "alice", "secret1", "none")
    \/ \E c \in Slots, t \in Presented, ok \in BOOLEAN : RefreshGet(c, t, ok)
    \/ \E c \in Slots, ok \in BOOLEAN : RefreshCount(c) < RaceCount /\ RefreshLimit(c, ok)
    \/ \E c \in Slots, ok \in BOOLEAN : RefreshFind(c, ok)
    \/ \E c \in Slots, ok \in BOOLEAN : RefreshMark(c, ok)
    \/ \E c \in Slots, ok \in BOOLEAN : RefreshStore(c, ok)
    \/ \E c \in Slots : Respond(c)
    \/ now < FaultTime /\ Tick(ROTATION_GRACE_PERIOD)

SpecFaulty == Init /\ [][NextFaulty]_vars

(* One request at a time, long enough to exhaust a subject's refresh budget
   and to see the window end *)
NextThrottle ==
    \/ Login(1, "alice", "secret1", "none")
    \/ \E t \in Presented : RefreshGet(1, t, TRUE)
    \/ RefreshLimit(1, TRUE)
    \/ RefreshFind(1, TRUE)
    \/ RefreshMark(1, TRUE)
    \/ RefreshStore(1, TRUE)
    \/ Respond(1)
    \/ now < FineTime /\ Tick(ROTATION_GRACE_PERIOD)
    \/ Tick(REFRESH_WINDOW)

SpecThrottle == Init /\ [][NextThrottle]_vars

(* Access tokens on the protected routes, logout and the passage of time *)
Presentable == minted \cup {Forged, Malformed}

Headers == {[scheme |-> sc, token |-> tk] : sc \in Schemes, tk \in Presentable} \cup {NoHeader}

HeadersOf(user_id) == {h \in Headers : h.token.sub \in {user_id, ""}}

RouteCount(c) == RateCount(rate, RateKey(RouteAction(calls[c].op), calls[c].user_id))

(* One request at a time on the protected routes, with logins and logouts;
   the clock is read every 10 seconds at first and then a leeway later *)
NextAccess ==
    \/ \E a \in {"alice", "root"} :
          Login(1, a, IF a = "alice" THEN "secret1" ELSE "secret2", "none")
    \/ \E h \in Headers : Logout(1, h, TRUE)
    \/ \E h \in HeadersOf("u1") : AuthMiddleware(1, "get_me", h, "none", TRUE)
    \/ \E h \in HeadersOf("u1") : AuthMiddleware(1, "update_me", h, "555", TRUE)
    \/ \E h \in Headers : AuthMiddleware(1, "register", h, "carol", TRUE)
    \/ AdminGuard(1)
    \/ ClaimsExtractor(1)
    \/ RouteCount(1) < AccessCount /\ HandlerLimit(1, TRUE)
    \/ CacheGet(1, TRUE)
    \/ Fetch(1, TRUE)
    \/ CacheSet(1, TRUE)
    \/ DbFind(1, TRUE)
    \/ DbUpdate(1, TRUE)
    \/ Insert(1, "secret3", "none", TRUE)
    \/ Respond(1)
    \/ Tick(MaxTime)

SpecAccess == Init /\ [][NextAccess]_vars

(* Logout and the blacklist over the life of an access token, seen through
   GET /users/me *)
NextRevoke ==
    \/ Login(1, "alice",  "secret1", "none")
    \/ \E h \in Headers : Logout(1, h, TRUE)
    \/ \E h \in Headers : AuthMiddleware(1, "get_me", h, "none", TRUE)
    \/ ClaimsExtractor(1)
    \/ RouteCount(1) < AccessCount /\ HandlerLimit(1, TRUE)
    \/ CacheGet(1, TRUE)
    \/ Fetch(1, TRUE)
    \/ CacheSet(1, TRUE)
    \/ Respond(1)
    \/ now < FineTime /\ Tick(ROTATION_GRACE_PERIOD)
    \/ Tick(LEEWAY)

SpecRevoke == Init /\ [][NextRevoke]_vars

(* the task slots of two requests in flight at a time *)
Racers == {c \in Slots : c <= 2}

(* Concurrent callers of the limiter on one key, second by second *)
LimiterCount(c) == RateCount(rate, RateKey("limiter", calls[c].user_id))

NextLimiter ==
    \/ \E c \in Racers, u \in LimiterSubjects : LimitIssue(c, u)
    \/ \E c \in Racers : LimiterCount(c) < LimiterCap /\ LimitScript(c, LimitL, LimitW)
    \/ \E c \in Racers : Respond(c)
    \/ now < LimiterTime /\ Tick(1)

SpecLimiter == Init /\ [][NextLimiter]_vars

(* The profile cache under concurrent readers and writers, healthy store *)
NextCache ==
    \/ \E c \in Slots, u \in CacheSubjects : GetProfile(c, u)
    \/ \E c \in Slots, u \in CacheSubjects, p \in Phones : UpdateProfile(c, u, p)
    \/ \E c \in Slots : CacheGet(c, TRUE)
    \/ \E c \in Slots : Fetch(c, TRUE)
    \/ \E c \in Slots : CacheSet(c, TRUE)
    \/ \E c \in Slots : DbFind(c, TRUE)
    \/ \E c \in Slots : DbUpdate(c, TRUE)
    \/ \E c \in Slots : Respond(c)

SpecCache == Init /\ [][NextCache]_vars

(* The profile cache where any call to the store or the directory may fail
   and a stored value may be unreadable *)
NextCacheFaulty ==
    \/ \E c \in Slots, u \in CacheSubjects : GetProfile(c, u)
    \/ \E c \in Slots, u \in CacheSubjects, p \in Phones : UpdateProfile(c, u, p)
    \/ \E c \in Slots, ok \in BOOLEAN : CacheGet(c, ok)
    \/ \E c \in Slots, ok \in BOOLEAN : Fetch(c, ok)
    \/ \E c \in Slots, ok \in BOOLEAN : CacheSet(c, ok)
    \/ \E c \in Slots, ok \in BOOLEAN : DbFind(c, ok)
    \/ \E c \in Slots, ok \in BOOLEAN : DbUpdate(c, ok)
    \/ \E k \in CacheSubjects, v \in {Garbage, <<>>} : Corrupt(k, v)
    \/ \E c \in Slots : Respond(c)

SpecCacheFaulty == Init /\ [][NextCacheFaulty]_vars

(* One client's session from end to end: carol is registered, signs in,
   refreshes, signs out and reads her profile, one request at a time *)
JourneyHeaders == {h \in Headers : h.scheme = "Bearer" /\ h.token \in minted}

NextJourney ==
    \/ Register(1, "carol")
    \/ Insert(1, "secret3", "none", TRUE)
    \/ next_uuid < JourneyTokens /\ Login(1, "carol", "secret3", "none")
    \/ \E t \in Presented : RefreshGet(1, t, TRUE)
    \/ RefreshCount(1) < JourneyCount /\ RefreshLimit(1, TRUE)
    \/ RefreshFind(1, TRUE)
    \/ RefreshMark(1, TRUE)
    \/ next_uuid < JourneyTokens /\ RefreshStore(1, TRUE)
    \/ \E h \in JourneyHeaders : Logout(1, h, TRUE)
    \/ \E h \in JourneyHeaders : AuthMiddleware(1, "get_me", h, "none", TRUE)
    \/ ClaimsExtractor(1)
    \/ RouteCount(1) < AccessCount /\ HandlerLimit(1, TRUE)
    \/ CacheGet(1, TRUE)
    \/ Fetch(1, TRUE)
    \/ CacheSet(1, TRUE)
    \/ Respond(1)
    \/ now < ROTATION_GRACE_PERIOD /\ Tick(ROTATION_GRACE_PERIOD)

SpecJourney == Init /\ [][NextJourney]_vars

(* Every way a request can fail authentication: sign-in with an unknown
   account or a wrong password, refresh with a token that is absent, used or
   bound to a deleted user, and the protected routes with a missing, forged,
   expired or revoked access token *)
LoginCount(a) == RateCount(rate, RateKey("login", a))

NextMessages ==
    \/ \E a \in {"alice", "mallory"}, p \in Passwords :
          LoginCount(a) < MsgCount /\ next_uuid < MsgTokens /\ Login(1, a, p, "none")
    \/ \E t \in Presented : RefreshGet(1, t, TRUE)
    \/ RefreshCount(1) < MsgCount /\ RefreshLimit(1, TRUE)
    \/ RefreshFind(1, TRUE)
    \/ RefreshMark(1, TRUE)
    \/ next_uuid < MsgTokens /\ RefreshStore(1, TRUE)
    \/ Remove("u1")
    \/ \E h \in HeadersOf("u1") : Logout(1, h, TRUE)
    \/ \E h \in HeadersOf("u1") : AuthMiddleware(1, "get_me", h, "none", TRUE)
    \/ \E h \in HeadersOf("u1") : AuthMiddleware(1, "register", h, "carol", TRUE)
    \/ AdminGuard(1)
    \/ ClaimsExtractor(1)
    \/ RouteCount(1) < AccessCount /\ HandlerLimit(1, TRUE)
    \/ CacheGet(1, TRUE)
    \/ Fetch(1, TRUE)
    \/ CacheSet(1, TRUE)
    \/ Respond(1)
    \/ Tick(MaxTime)

SpecMessages == Init /\ [][NextMessages]_vars

(* Rotation while the directory changes: the user is disabled, enabled
   again or deleted between and during the calls, served one at a time *)
NextDirectory ==
    \/ LoginCount("alice") < MsgCount /\ next_uuid < MsgTokens /\ Login(1, "alice", "secret1", "none")
    \/ \E t \in Presented : RefreshGet(1, t, TRUE)
    \/ RefreshCount(1) < MsgCount /\ RefreshLimit(1, TRUE)
    \/ RefreshFind(1, TRUE)
    \/ RefreshMark(1, TRUE)
    \/ next_uuid < MsgTokens /\ RefreshStore(1, TRUE)
    \/ \E b \in BOOLEAN : SetActive("u1", b)
    \/ Remove("u1")
    \/ Respond(1)
    \/ now < FineTime /\ Tick(ROTATION_GRACE_PERIOD)

SpecDirectory == Init /\ [][NextDirectory]_vars

(* Sign-in attempts, right and wrong, on a known and an unknown account,
   while the account is disabled and enabled and any collaborator may fail *)
NextSignIn ==
    \/ \E a \in {"alice", "mallory"}, p \in Passwords, f \in {"none", "script", "db", "set"} :
          Login(1, a, p, f)
    \/ \E b \in BOOLEAN : SetActive("u1", b)
    \/ Respond(1)
    \/ now < REFRESH_WINDOW /\ Tick(REFRESH_WINDOW)

SpecSignIn == Init /\ [][NextSignIn]_vars

(* The protected routes while the blacklist may fail to answer: sign-ins,
   logouts, GET /users/me and POST /admin/register, one request at a time *)
NextGate ==
    \/ \E a \in {"alice", "root"} :
          next_uuid < GateTokens /\ Login(1, a, IF a = "alice" THEN "secret1" ELSE "secret2", "none")
    \/ \E h \in Headers : Logout(1, h, TRUE)
    \/ \E h \in Headers, ok \in BOOLEAN : AuthMiddleware(1, "get_me", h, "none", ok)
    \/ \E h \in Headers, ok \in BOOLEAN : AuthMiddleware(1, "register", h, "carol", ok)
    \/ AdminGuard(1)
    \/ ClaimsExtractor(1)
    \/ RouteCount(1) < AccessCount /\ HandlerLimit(1, TRUE)
    \/ CacheGet(1, TRUE)
    \/ Fetch(1, TRUE)
    \/ CacheSet(1, TRUE)
    \/ Insert(1, "secret3", "none", TRUE)
    \/ Respond(1)

SpecGate == Init /\ [][NextGate]_vars

(* Callers of check_rate_limit on several actions and subjects, one request
   at a time: sign-ins on two account strings, refreshes and GET /users/me *)
CounterHeaders == {h \in Headers : h.scheme = "Bearer" /\ h.token \in minted}

NextCounters ==
    \/ \E a \in {"alice", Sneaky} :
          /\ LoginCount(a) < CounterCap
          /\ a = "alice" => next_uuid < CounterTokens
          /\ Login(1, a, "secret1", "none")
    \/ \E t \in Presented : RefreshGet(1, t, TRUE)
    \/ RefreshCount(1) < CounterCap /\ RefreshLimit(1, TRUE)
    \/ RefreshFind(1, TRUE)
    \/ RefreshMark(1, TRUE)
    \/ next_uuid < CounterTokens /\ RefreshStore(1, TRUE)
    \/ \E h \in CounterHeaders : AuthMiddleware(1, "get_me", h, "none", TRUE)
    \/ ClaimsExtractor(1)
    \/ RouteCount(1) < CounterCap /\ HandlerLimit(1, TRUE)
    \/ CacheGet(1, TRUE)
    \/ Fetch(1, TRUE)
    \/ CacheSet(1, TRUE)
    \/ Respond(1)
    \/ now < ROTATION_GRACE_PERIOD /\ Tick(ROTATION_GRACE_PERIOD)

SpecCounters == Init /\ [][NextCounters]_vars

(* POST /admin/register with every kind of header, among sign-ins and
   logouts, one request at a time *)

(* a token signed with the service's secret by another issuer, whose role is
   no role of this service *)
Foreign == [sub |-> "u9", username |-> "eve", role |-> "Admin",
            exp |-> MaxTime + LEEWAY + 1, sig |-> "valid"]

AdminHeaders == Headers \cup {[scheme |-> sc, token |-> Foreign] : sc \in Schemes}

NextAdmin ==
    \/ \E a \in {"alice", "root"} :
          next_uuid < AdminTokens /\ Login(1, a, IF a = "alice" THEN "secret1" ELSE "secret2", "none")
    \/ \E h \in AdminHeaders : Logout(1, h, TRUE)
    \/ \E h \in AdminHeaders, n \in {"carol", "dave"} : AuthMiddleware(1, "register", h, n, TRUE)
    \/ AdminGuard(1)
    \/ RouteCount(1) < AdminCount /\ HandlerLimit(1, TRUE)
    \/ \E p \in Phones : Insert(1, "secret3", p, TRUE)
    \/ Respond(1)

SpecAdmin == Init /\ [][NextAdmin]_vars

(* Two requests at a time, where a call may be dropped at any await and the
   write of the new refresh record may fail *)
NextAbandon ==
    \/ \E c \in Racers : next_uuid < MsgTokens /\ Login(c, "alice", "secret1", "none")
    \/ \E c \in Racers, t \in Presented : RefreshGet(c, t, TRUE)
    \/ \E c \in Racers : RefreshCount(c) < MsgCount /\ RefreshLimit(c, TRUE)
    \/ \E c \in Racers : RefreshFind(c, TRUE)
    \/ \E c \in Racers : RefreshMark(c, TRUE)
    \/ \E c \in Racers, ok \in BOOLEAN : next_uuid < MsgTokens /\ RefreshStore(c, ok)
    \/ \E c \in Racers : Abandon(c)
    \/ \E c \in Racers : Respond(c)
    \/ now < FaultTime /\ Tick(ROTATION_GRACE_PERIOD)

SpecAbandon == Init /\ [][NextAbandon]_vars

(* Two users sign in and rotate their tokens, two requests at a time *)
NextOwners ==
    \/ \E c \in Racers, a \in {"alice", "root"} :
          Login(c, a, IF a = "alice" THEN "secret1" ELSE "secret2", "none")
    \/ \E c \in Racers, t \in Presented : RefreshGet(c, t, TRUE)
    \/ \E c \in Racers : RefreshCount(c) < MsgCount /\ RefreshLimit(c, TRUE)
    \/ \E c \in Racers : RefreshFind(c, TRUE)
    \/ \E c \in Racers : RefreshMark(c, TRUE)
    \/ \E c \in Racers : RefreshStore(c, TRUE)
    \/ \E c \in Racers : Respond(c)
    \/ now < ROTATION_GRACE_PERIOD /\ Tick(ROTATION_GRACE_PERIOD)

SpecOwners == Init /\ [][NextOwners]_vars

-----------------------------------------------------------------------------
(* Properties *)

RefreshCalls == {c \in Slots : calls[c].op = "refresh"}

IsLive(t) == t \in DOMAIN refresh_store /\ ~strip_prefix(refresh_store[t].val, REDIS_PREFIX_USED)

IsUsed(t) == t \in DOMAIN refresh_store /\ strip_prefix(refresh_store[t].val, REDIS_PREFIX_USED)

(* C1: of all the refresh calls presenting one refresh token, in any
   interleaving, at most one returns a new token pair. *)
C1_OneRotationPerToken == \A t \in DOMAIN succ : succ[t] <= 1

(* C2: a refresh call that found the used-marker always fails with Conflict,
   whatever the subject's refresh counter is. *)
C2_UsedAlwaysConflict ==
    \A c \in RefreshCalls :
        (Returned(c) /\ calls[c].is_used) => calls[c].err = "Conflict"

(* C2 as amended: a refresh call that found the used-marker returns no token
   pair and writes no refresh record; it fails with the rate-limit error when
   the count the throttle returned exceeds the limit, and with Conflict
   otherwise. *)
C2_UsedNeverRotates ==
    /\ [](\A c \in RefreshCalls :
            (Returned(c) /\ calls[c].is_used) =>
                /\ calls[c].out = NoOut
                /\ calls[c].err = IF calls[c].count > REFRESH_LIMIT
                                  THEN "RateLimitExceeded" ELSE "Conflict")
    /\ [][\A c \in RefreshCalls :
            (calls[c].is_used /\ calls'[c] # calls[c]) =>
                (refresh_store' = refresh_store /\ next_uuid' = next_uuid
                   /\ minted' = minted)]_vars

C2_Witness ==
    \E c \in RefreshCalls :
        Returned(c) /\ calls[c].is_used /\ calls[c].err = "RateLimitExceeded"

(* C3: when refresh has returned a token pair, the presented token's record
   is not LIVE any more. *)
C3_FailClosed ==
    \A c \in RefreshCalls : ReturnedOk(c) => ~IsLive(calls[c].rtok)

-----------------------------------------------------------------------------
RouteCalls == {c \in Slots : calls[c].op \in Routes}

LogoutCalls == {c \in Slots : calls[c].op = "logout"}

(* C4: a request to a protected route whose presented token was on the
   blacklist when it arrived, or does not pass signature and expiry
   verification, never enters the handler: the blacklist check and the
   verification both reject on the token the request presents. *)
C4_RejectedBeforeHandler ==
    \A c \in RouteCalls :
        (calls[c].was_revoked \/ ~calls[c].was_verifiable) => ~calls[c].handled

(* C5: a token minted at t0 with lifetime ttl passes verification exactly at
   the times before t0 + ttl: whenever a protected route has verified a
   presented token, the verdict is acceptance if and only if the token was
   issued by the service and its exp still lies in the future. *)
C5_AcceptedUntilExpiry ==
    \A c \in RouteCalls :
        calls[c].verified_at >= 0 =>
            (calls[c].verdict = "ok" <=>
                (calls[c].hdr.token \in minted /\ calls[c].verified_at < calls[c].hdr.token.exp))

(* C6: logout answers success whatever the state of the presented token, and
   a repeated logout of a token changes nothing: it answers success again
   and the token's blacklist entry, if there is one, keeps its expiry. *)
C6_LogoutIdempotent ==
    /\ [](\A c \in LogoutCalls :
            (Returned(c) /\ typed_bearer(calls[c].hdr)) => calls[c].err = "Ok")
    /\ [][\A c \in Slots :
            (calls[c].pc = "idle" /\ calls'[c].op = "logout" /\
             (calls'[c].hdr.token \in revoked \/ calls'[c].hdr.token \in DOMAIN blacklist)) =>
                (calls'[c].err = "Ok" /\ blacklist' = blacklist)]_vars

C6_Witness ==
    \E c \in LogoutCalls :
        /\ ReturnedOk(c)
        /\ calls[c].was_revoked
        /\ calls[c].hdr.token \in DOMAIN blacklist
        /\ calls[c].at > calls[c].hdr.token.exp - jwt_expiration

(* C7: an access token revoked by logout with expiry E is on the blacklist at
   every time before E and absent from E on; a request that presents it as
   "Bearer <token>" to a protected route before E is answered "Token has been
   revoked". *)
C7_RevokedUntilExpiry ==
    /\ \A tk \in revoked : (tk \in DOMAIN blacklist) <=> (now < tk.exp)
    /\ \A c \in RouteCalls :
          (calls[c].hdr.scheme = "Bearer" /\ calls[c].hdr.token \in revoked
             /\ calls[c].at < calls[c].hdr.token.exp) =>
                (Returned(c) /\ calls[c].err = "AuthError"
                   /\ calls[c].msg = "Token has been revoked" /\ ~calls[c].handled)

C7_Witness ==
    \E c \in RouteCalls :
        /\ calls[c].hdr.scheme = "Bearer" /\ calls[c].hdr.token \in revoked
        /\ calls[c].at > 0 /\ calls[c].at < calls[c].hdr.token.exp
        /\ calls[c].msg = "Token has been revoked"

C7_WitnessGone ==
    \E tk \in revoked : now >= tk.exp /\ tk \notin DOMAIN blacklist

(* C8: every blacklist entry carries an expiry, the expiry is the exp of the
   token it names, and that exp lies in the future: the entry never outlives
   the token and no entry exists for a token that has expired. *)
C8_EntryLivesWithToken ==
    \A tk \in DOMAIN blacklist :
        /\ blacklist[tk].exp_at = tk.exp
        /\ tk.exp > now
        /\ tk \in minted

C8_Witness ==
    \E tk \in DOMAIN blacklist : blacklist[tk].exp_at = tk.exp /\ now > tk.exp - jwt_expiration

LimiterCalls == {c \in Slots : calls[c].op = "limiter" /\ Returned(c)}

(* C9: with limit L and window W on one key, the calls of a window are
   counted 1, 2, ... from the first call of the window; a call succeeds when
   its place is at most L and fails with the rate-limit error otherwise; the
   counter lives exactly until W seconds after the first call of its window,
   so the next call after that is attempt 1 of a new window. *)
C9_FixedWindow ==
    /\ \A c \in LimiterCalls :
          /\ calls[c].count = calls[c].nth
          /\ calls[c].err = IF calls[c].nth <= LimitL THEN "Ok" ELSE "RateLimitExceeded"
    /\ \A k \in DOMAIN windows :
          IF now < windows[k].start + LimitW
          THEN k \in DOMAIN rate /\ rate[k].val = windows[k].n
                 /\ rate[k].exp_at = windows[k].start + LimitW
          ELSE k \notin DOMAIN rate

C9_WitnessOver ==
    \E c \in LimiterCalls : calls[c].nth = LimitL + 1 /\ calls[c].err = "RateLimitExceeded"

C9_WitnessReset ==
    \E c, d \in LimiterCalls :
        /\ calls[c].user_id = calls[d].user_id
        /\ calls[c].err = "RateLimitExceeded"
        /\ calls[d].wstart = calls[c].wstart + LimitW
        /\ calls[d].count = 1 /\ calls[d].err = "Ok"

(* C10: the script is one step of the store: no two calls of one window on
   one key are handed the same count, the counts handed out in a window are
   1..n, at most limit calls of a window succeed, and in every state each
   counter key carries an expiry that lies in the future. *)
C10_AtomicCount ==
    /\ \A k \in DOMAIN rate : rate[k].exp_at > now
    /\ \A c, d \in LimiterCalls :
          (c # d /\ calls[c].user_id = calls[d].user_id /\ calls[c].wstart = calls[d].wstart) =>
              calls[c].count # calls[d].count
    /\ \A c \in LimiterCalls :
          /\ calls[c].count \in 1..LimiterCap
          /\ calls[c].err = "Ok" => calls[c].count <= LimitL

C10_Witness ==
    \E c, d \in LimiterCalls :
        /\ c # d /\ calls[c].user_id = calls[d].user_id /\ calls[c].wstart = calls[d].wstart
        /\ calls[c].count = LimitL /\ calls[d].count = LimitL + 1
        /\ calls[c].err = "Ok" /\ calls[d].err = "RateLimitExceeded"

-----------------------------------------------------------------------------
PastThrottle(c) == calls[c].pc \in {"find", "mark", "store"} \/ ReturnedOk(c)

(* C11: refresh throttles per subject: the count a refresh call is judged by
   is the subject's counter, whichever of the subject's tokens is presented;
   only counts 1..10 of a window pass the throttle; a call counted above 10
   fails with the rate-limit error, returns no token pair, and its step
   changes neither the refresh records, nor the directory, nor the tokens
   minted. *)
C11_ThrottlePerSubject ==
    /\ [](\A c \in RefreshCalls :
            /\ PastThrottle(c) => calls[c].count \in 1..REFRESH_LIMIT
            /\ calls[c].count > REFRESH_LIMIT =>
                  (Returned(c) /\ calls[c].err = "RateLimitExceeded" /\ calls[c].out = NoOut))
    /\ [][\A c \in RefreshCalls :
            (calls[c].pc = "limit" /\ calls'[c].pc # "limit") =>
                /\ calls'[c].count = RateCount(rate, RateKey("refresh_token", calls[c].user_id)) + 1
                /\ calls'[c].count > REFRESH_LIMIT =>
                      (refresh_store' = refresh_store /\ users' = users
                         /\ minted' = minted /\ next_uuid' = next_uuid)]_vars

C11_Witness ==
    \E c \in RefreshCalls :
        /\ Returned(c) /\ calls[c].err = "RateLimitExceeded"
        /\ ~calls[c].is_used /\ IsLive(calls[c].rtok) /\ calls[c].rtok > 1
        /\ refresh_store[calls[c].rtok].exp_at = now + refresh_token_expiration

-----------------------------------------------------------------------------
GetCalls == {c \in Slots : calls[c].op = "get_profile"}

(* C12: with a healthy store, a read through the cache of a key under which
   a profile was set answers at once with the profile last set, and the
   fetcher does not run. *)
C12_SetThenGet ==
    [][\A c \in Slots :
          (calls[c].op = "get_profile" /\ calls[c].pc = "cache_get"
             /\ calls'[c] # calls[c] /\ calls[c].user_id \in DOMAIN written) =>
                /\ calls'[c].pc = "done" /\ calls'[c].err = "Ok"
                /\ calls'[c].data = written[calls[c].user_id]
                /\ ~calls'[c].fetched]_vars

C12_Witness ==
    \E c \in GetCalls :
        /\ ReturnedOk(c) /\ ~calls[c].fetched
        /\ calls[c].user_id \in DOMAIN written
        /\ calls[c].data = written[calls[c].user_id]
        /\ calls[c].data.phone = "555"

(* C13: get_or_fetch never raises a store failure: a call whose read failed,
   whose stored value was empty or did not deserialize, or whose write-back
   failed, returns the value its fetcher produced; the only errors it
   returns are the fetcher's own (the directory failed, or has no such
   user). *)
C13_SoftFail ==
    \A c \in GetCalls :
        Returned(c) =>
            /\ calls[c].fetched => (calls[c].err = "Ok" /\ calls[c].data = calls[c].fetch_val)
            /\ calls[c].err # "Ok" =>
                  (~calls[c].fetched /\ calls[c].err \in {"DatabaseError", "NotFound"})

C13_Witness ==
    \E c \in GetCalls :
        /\ ReturnedOk(c) /\ calls[c].fetched
        /\ {"read", "write"} \subseteq calls[c].faults
        /\ calls[c].data = ProfileOf(calls[c].user_id, users[calls[c].user_id])

C13_WitnessUnreadable ==
    \E c \in GetCalls :
        /\ ReturnedOk(c) /\ calls[c].fetched /\ "deserialize" \in calls[c].faults

-----------------------------------------------------------------------------
(* What the end-to-end sequence says of a refresh call that has returned:
   the first refresh of a token found LIVE returns a new pair *)
FirstRefreshSucceeds ==
    \A c \in RefreshCalls :
        (Returned(c) /\ ~calls[c].was_rotated /\ ~calls[c].is_used
                     /\ calls[c].msg # "Invalid or expired refresh token") =>
            /\ calls[c].err = "Ok"
            /\ calls[c].out.refresh_token \notin {0, calls[c].rtok}
            /\ calls[c].out.access_token \in minted

(* a protected call presenting an access token that logout has revoked and
   whose expiry has not passed is rejected as revoked *)
RevokedAccessRejected ==
    \A c \in RouteCalls :
        (Returned(c) /\ calls[c].hdr.scheme = "Bearer"
                     /\ calls[c].hdr.token \in revoked
                     /\ calls[c].at < calls[c].hdr.token.exp) =>
            /\ calls[c].err = "AuthError"
            /\ calls[c].msg = "Token has been revoked"
            /\ ~calls[c].handled

(* C14 as stated: after registering a user and logging in, the first refresh
   of the refresh token returns a new pair, every later refresh of the same
   token fails with the reuse error, and after logout of the new access
   token a protected call presenting it is rejected as revoked before its
   expiry. *)
C14_SecondRefreshIsReuse ==
    /\ FirstRefreshSucceeds
    /\ \A c \in RefreshCalls :
          (Returned(c) /\ calls[c].was_rotated) =>
              /\ calls[c].err = "Conflict"
              /\ calls[c].msg = "Token reused. Please login again."
    /\ RevokedAccessRejected

(* C14 (amended): after registering a user and logging in, the first refresh
   of the refresh token returns a new pair; a later refresh of the same token
   returns no pair, and fails with the reuse error when it arrives less than
   the grace period (10 s) after the token was marked used and with the
   'invalid or expired' authentication error from then on; after logout of
   the new access token a protected call presenting it is rejected as revoked
   before its expiry. *)
C14_Journey ==
    /\ FirstRefreshSucceeds
    /\ \A c \in RefreshCalls :
          (Returned(c) /\ calls[c].was_rotated) =>
              /\ calls[c].out = NoOut
              /\ calls[c].in_grace =>
                    /\ calls[c].err = "Conflict"
                    /\ calls[c].msg = "Token reused. Please login again."
              /\ ~calls[c].in_grace =>
                    /\ calls[c].err = "AuthError"
                    /\ calls[c].msg = "Invalid or expired refresh token"
    /\ RevokedAccessRejected

(* carol was registered, her first refresh token was rotated once and refused
   a second time in the same window, and her request with a revoked,
   unexpired access token has just been rejected *)
C14_Witness ==
    /\ "u3" \in DOMAIN users /\ users["u3"].username = "carol"
    /\ \E t \in Presented : succ[t] = 1 /\ t \in DOMAIN marked
    /\ RateCount(rate, RateKey("refresh_token", "u3")) = 2
    /\ next_uuid = 2
    /\ Returned(1) /\ calls[1].op = "get_me"
    /\ calls[1].hdr.token.sub = "u3"
    /\ calls[1].hdr.token \in revoked
    /\ calls[1].at < calls[1].hdr.token.exp
    /\ calls[1].msg = "Token has been revoked"

-----------------------------------------------------------------------------
(* an authentication failure: the AuthError kind, returned by sign-in,
   refresh and the protected routes *)
AuthFailure(c) == Returned(c) /\ calls[c].err = "AuthError"

(* a refresh refused because the token presented carries the used-marker *)
ReuseFailure(c) ==
    Returned(c) /\ calls[c].op = "refresh" /\ calls[c].is_used /\ calls[c].err = "Conflict"

(* the check at which a request failed authentication, told from what the
   request presented and what held when it arrived *)
FailedCheck(c) ==
    LET r == calls[c]
    IN  IF r.op = "login" THEN "credentials"
        ELSE IF r.op = "refresh"
        THEN IF r.user_id = "" THEN "refresh_lookup" ELSE "subject"
        ELSE IF strip_bearer(r.hdr) /\ r.was_revoked THEN "blacklist"
        ELSE IF r.op = "register"
        THEN IF ~strip_bearer(r.hdr) THEN "guard_header" ELSE "guard_token"
        ELSE IF ~typed_bearer(r.hdr) THEN "claims_header" ELSE "claims_token"

CheckMessage(check) ==
    CASE check = "credentials"    -> "Invalid credentials"
      [] check = "refresh_lookup" -> "Invalid or expired refresh token"
      [] check = "subject"        -> "User not found"
      [] check = "blacklist"      -> "Token has been revoked"
      [] check = "guard_header"   -> "Missing token"
      [] check = "guard_token"    -> "Invalid token"
      [] check = "claims_header"  -> "Missing or invalid Authorization header"
      [] check = "claims_token"   -> "Invalid or expired token"

(* C15 as stated: every authentication failure is answered with one
   identical message, the one a failed sign-in is answered with, and a
   reused refresh token is answered like an invalid one. *)
C15_OneMessage ==
    \A c \in Slots :
        /\ AuthFailure(c) =>
              calls[c].msg = into_response("AuthError", "Invalid credentials").msg
        /\ ReuseFailure(c) =>
              /\ calls[c].msg = "Invalid or expired refresh token"
              /\ calls[c].status = 401

(* C15 (amended): every authentication failure is answered with status 401
   and a message that names the check that failed; only an unknown account
   and a wrong password share a message; a reused refresh token is answered
   with status 409 and its own message, unlike an invalid one. *)
C15_MessagePerCheck ==
    \A c \in Slots :
        /\ AuthFailure(c) =>
              /\ calls[c].status = 401
              /\ calls[c].msg = CheckMessage(FailedCheck(c))
        /\ ReuseFailure(c) =>
              /\ calls[c].status = 409
              /\ calls[c].msg = "Token reused. Please login again."
              /\ calls[c].msg # CheckMessage("refresh_lookup")

(* a request with a revoked access token has been refused with the message
   of the blacklist check, after a sign-in under an unknown account was
   counted *)
C15_Witness ==
    /\ AuthFailure(1) /\ FailedCheck(1) = "blacklist"
    /\ calls[1].msg = "Token has been revoked"
    /\ LoginCount("mallory") >= 1

(* a refresh of a LIVE token whose user was deleted has been refused *)
C15_WitnessSubject ==
    AuthFailure(1) /\ FailedCheck(1) = "subject" /\ calls[1].msg = "User not found"

-----------------------------------------------------------------------------
(* the keys the service has issued so far, and the states of a key *)
Issued == 1..next_uuid

IsAbsent(t) == t \notin DOMAIN refresh_store

(* C16: a refresh-token key only moves ABSENT -> LIVE -> USED -> ABSENT, or
   LIVE -> ABSENT on expiry: in no step does a USED key become LIVE, is a key
   that was issued and has become ABSENT written again, or does an ABSENT key
   become USED. *)
C16_KeyLifecycle ==
    [][\A t \in 1..(MaxTokens + 1) :
          /\ IsUsed(t) => ~IsLive(t)'
          /\ (t \in Issued /\ IsAbsent(t)) => IsAbsent(t)'
          /\ IsAbsent(t) => ~IsUsed(t)']_vars

-----------------------------------------------------------------------------
(* C17: after a successful refresh of token t bound to subject s, the record
   of t holds the used-marker followed by s with a TTL of at most the grace
   period in place of the refresh lifetime, and the record is absent once the
   grace period has passed since it was marked used. *)
C17_UsedForGracePeriod ==
    /\ \A c \in RefreshCalls :
          (ReturnedOk(c) /\ ~IsAbsent(calls[c].rtok)) =>
              /\ refresh_store[calls[c].rtok].val = used_val(calls[c].user_id)
              /\ refresh_store[calls[c].rtok].exp_at <= now + ROTATION_GRACE_PERIOD
    /\ \A t \in DOMAIN marked :
          now >= marked[t] + ROTATION_GRACE_PERIOD => IsAbsent(t)

-----------------------------------------------------------------------------
(* C18: a refresh call presenting a token whose key is absent (never issued,
   expired, or used with its grace period over) returns at once with the
   authentication error 'Invalid or expired refresh token', and its step
   changes nothing else: no rate-limit counter, no refresh record, no token. *)
C18_AbsentChangesNothing ==
    /\ [](\A c \in RefreshCalls :
             calls[c].user_id = "" =>
                 (calls[c].count = 0 /\ calls[c].out = NoOut /\
                  calls[c].pc = "done" /\ calls[c].err = "AuthError" /\
                  calls[c].status = 401 /\
                  calls[c].msg = "Invalid or expired refresh token"))
    /\ [][\A c \in Slots :
             (calls[c].pc = "idle" /\ calls'[c].op = "refresh"
                                   /\ IsAbsent(calls'[c].rtok)) =>
                 /\ calls'[c].user_id = ""
                 /\ UNCHANGED <<rate, refresh_store, next_uuid, minted, succ, marked,
                                blacklist, cache, users>>]_vars

(* a refresh of a token that was rotated and whose used record has expired
   has been refused, and the subject's refresh counter stands where the
   rotation left it *)
C18_Witness ==
    /\ Returned(1) /\ calls[1].op = "refresh"
    /\ calls[1].rtok \in DOMAIN marked /\ IsAbsent(calls[1].rtok)
    /\ calls[1].msg = "Invalid or expired refresh token"
    /\ RateCount(rate, RateKey("refresh_token", "u1")) = 1

(* the same for a token that expired without being used *)
C18_WitnessExpired ==
    /\ Returned(1) /\ calls[1].op = "refresh"
    /\ calls[1].rtok \in Issued /\ calls[1].rtok \notin DOMAIN marked
    /\ IsAbsent(calls[1].rtok)
    /\ calls[1].msg = "Invalid or expired refresh token"

-----------------------------------------------------------------------------
(* a refresh call refused because its subject is missing or disabled *)
SubjectRefused(r) ==
    r.op = "refresh" /\ r.pc = "done" /\ r.msg \in {"User not found", "User inactive"}

(* C19: a refresh of a LIVE token whose subject is missing from the directory
   fails with the authentication error 'User not found', and one whose
   subject is disabled fails with Forbidden; the call has written nothing by
   then: the step that refuses it, like its steps before, leaves every
   refresh record as it was, the presented token LIVE with its expiry, and
   mints nothing. *)
C19_RefusedBeforeMark ==
    /\ [](\A c \in RefreshCalls :
             /\ (calls[c].pc = "done" /\ calls[c].msg = "User not found") =>
                   (calls[c].err = "AuthError" /\ calls[c].status = 401
                      /\ calls[c].user_id \notin DOMAIN users)
             /\ (calls[c].pc = "done" /\ calls[c].msg = "User inactive") =>
                   (calls[c].err = "Forbidden" /\ calls[c].status = 403)
             /\ SubjectRefused(calls[c]) =>
                   /\ calls[c].out = NoOut /\ ~calls[c].is_used
                   /\ calls[c].rtok \notin DOMAIN marked
                   /\ IsLive(calls[c].rtok) \/ IsAbsent(calls[c].rtok))
    /\ [][\A c \in Slots :
             /\ (calls[c].pc = "find" /\ calls[c].op = "refresh" /\ calls'[c].pc # "find") =>
                   /\ calls[c].user_id \notin DOMAIN users =>
                         calls'[c].msg = "User not found"
                   /\ (calls[c].user_id \in DOMAIN users
                         /\ ~users[calls[c].user_id].is_active) =>
                         calls'[c].msg = "User inactive"
             /\ (calls'[c] # calls[c] /\ calls'[c].op = "refresh"
                  /\ (calls'[c].pc \in {"limit", "find", "mark"} \/ SubjectRefused(calls'[c]))) =>
                   UNCHANGED <<refresh_store, next_uuid, minted, succ, marked>>]_vars

(* a refresh of a token that is still LIVE and was never marked has been
   refused because the user is disabled *)
C19_Witness ==
    \E c \in RefreshCalls :
        /\ calls[c].pc = "done" /\ calls[c].msg = "User inactive"
        /\ IsLive(calls[c].rtok) /\ calls[c].rtok \notin DOMAIN marked

(* the same because the user was deleted *)
C19_WitnessMissing ==
    \E c \in RefreshCalls :
        /\ calls[c].pc = "done" /\ calls[c].msg = "User not found"
        /\ IsLive(calls[c].rtok) /\ calls[c].rtok \notin DOMAIN marked

-----------------------------------------------------------------------------
(* C20: once refresh has written the used-marker for a token, the token is
   consumed and nothing puts it back: whether the call is then dropped or
   fails at a later step, the record holds the used-marker until its grace
   period ends and is never LIVE again, and no refresh call that arrives
   after the marker was written returns a token pair, so that only a login
   issues the session a fresh LIVE token. *)
C20_NoRollback ==
    /\ [](\A t \in DOMAIN marked :
             /\ ~IsLive(t)
             /\ now < marked[t] + ROTATION_GRACE_PERIOD =>
                   (IsUsed(t) /\ refresh_store[t].exp_at = marked[t] + ROTATION_GRACE_PERIOD))
    /\ [](\A c \in RefreshCalls :
             calls[c].was_marked =>
                 /\ calls[c].pc \in {"limit", "done"}
                 /\ calls[c].err # "Ok"
                 /\ calls[c].out = NoOut)
    /\ [][\A t \in DOMAIN marked :
             /\ succ'[t] # succ[t] =>
                   \E c \in RefreshCalls :
                       calls[c].rtok = t /\ calls[c].pc = "store" /\ ~calls[c].was_marked
             /\ \A c \in Slots :
                   (calls[c].op = "refresh" /\ calls[c].rtok = t /\ calls[c].pc = "store"
                      /\ calls'[c].pc = "done" /\ calls'[c].err # "Ok") =>
                       (refresh_store' = refresh_store /\ succ' = succ /\ minted' = minted)]_vars

(* a call that had marked its token was dropped before it stored the new
   record, no pair was ever returned for the token, and a later refresh of
   the token has been refused as reuse *)
C20_Witness ==
    \E c, d \in Slots :
        /\ calls[c].op = "refresh" /\ calls[c].pc = "done" /\ calls[c].err = "Abandoned"
        /\ calls[c].rtok \in DOMAIN marked /\ ~calls[c].was_marked
        /\ succ[calls[c].rtok] = 0
        /\ calls[d].op = "refresh" /\ calls[d].rtok = calls[c].rtok
        /\ calls[d].was_marked /\ calls[d].pc = "done" /\ calls[d].err = "Conflict"

(* the same after the write of the new refresh record failed *)
C20_WitnessFailed ==
    \E c, d \in Slots :
        /\ calls[c].op = "refresh" /\ calls[c].pc = "done" /\ calls[c].err = "RedisError"
        /\ calls[c].rtok \in DOMAIN marked /\ ~calls[c].was_marked
        /\ succ[calls[c].rtok] = 0
        /\ calls[d].op = "refresh" /\ calls[d].rtok = calls[c].rtok
        /\ calls[d].was_marked /\ calls[d].pc = "done" /\ calls[d].err = "Conflict"

-----------------------------------------------------------------------------
(* the subject a refresh record names, LIVE or USED *)
Subject(val) == val[Len(val)]

(* C21: a refresh record names one subject for its whole life.  A key is
   issued LIVE with the refresh-token lifetime, by a login with the id of
   the user who signed in, or by a successful refresh with the subject read
   from the presented token, under a key different from the presented one,
   and the access token returned with it carries that subject; no later
   write to the key, the used-marker included, changes the subject; and
   refresh reads as its subject the one the record names. *)
C21_BoundToOneSubject ==
    /\ [][\A t \in 1..(MaxTokens + 1) :
             /\ (t \in DOMAIN refresh_store /\ t \in DOMAIN refresh_store') =>
                   Subject(refresh_store'[t].val) = Subject(refresh_store[t].val)
             /\ (t > next_uuid /\ t \in DOMAIN refresh_store') =>
                   /\ Len(refresh_store'[t].val) = 1
                   /\ refresh_store'[t].exp_at = now + refresh_token_expiration
                   /\ \E c \in Slots :
                         /\ calls[c].pc # "done" /\ calls'[c].pc = "done"
                         /\ calls'[c].err = "Ok"
                         /\ calls'[c].out.refresh_token = t
                         /\ calls'[c].out.access_token.sub = refresh_store'[t].val[1]
                         /\ calls'[c].op = "login" =>
                               calls'[c].out.access_token.sub \in FindByAccount(users, calls'[c].arg)
                         /\ calls'[c].op = "refresh" =>
                               /\ calls'[c].out.access_token.sub = calls[c].user_id
                               /\ t # calls[c].rtok]_vars
    /\ [][\A c \in Slots :
             (calls[c].pc = "idle" /\ calls'[c].op = "refresh"
                /\ calls'[c].rtok \in DOMAIN refresh_store) =>
                 calls'[c].user_id = Subject(refresh_store[calls'[c].rtok].val)]_vars

(* root's token was rotated: the old record is USED and names root, the new
   one is LIVE and bound to root, the access token carries root's id, and a
   token of alice is LIVE beside them *)
C21_Witness ==
    \E c \in RefreshCalls :
        /\ ReturnedOk(c) /\ calls[c].user_id = "u2"
        /\ IsUsed(calls[c].rtok)
        /\ Subject(refresh_store[calls[c].rtok].val) = "u2"
        /\ IsLive(calls[c].out.refresh_token)
        /\ refresh_store[calls[c].out.refresh_token].val = <<"u2">>
        /\ calls[c].out.access_token.sub = "u2"
        /\ \E t \in DOMAIN refresh_store : refresh_store[t].val = <<"u1">>

-----------------------------------------------------------------------------
(* the keys of a store all expire, no later than ttl seconds from now *)
AllExpire(store, ttl) ==
    \A k \in DOMAIN store : store[k].exp_at > now /\ store[k].exp_at <= now + ttl

(* C22: every key the service writes carries a TTL: at any time every
   refresh record, LIVE or USED, every blacklist entry, every rate-limit
   counter and every cached profile has an expiry, no further away than the
   longest TTL its kind is written with, and a key is not extended by a step
   that does not write it, so each becomes absent if it is not rewritten. *)
C22_EveryKeyExpires ==
    /\ [](/\ AllExpire(refresh_store, refresh_token_expiration)
          /\ \A t \in DOMAIN refresh_store :
                IsUsed(t) => refresh_store[t].exp_at <= now + ROTATION_GRACE_PERIOD
          /\ AllExpire(blacklist, jwt_expiration)
          /\ AllExpire(rate, REFRESH_WINDOW)
          /\ AllExpire(cache, CACHE_EXPIRE_USER_PROFILE))
    /\ [][/\ \A k \in DOMAIN rate \cap DOMAIN rate' : rate'[k].exp_at = rate[k].exp_at
          /\ \A k \in DOMAIN refresh_store \cap DOMAIN refresh_store' :
                refresh_store'[k] # refresh_store[k] => IsUsed(k)'
          /\ \A k \in DOMAIN blacklist \cap DOMAIN blacklist' :
                blacklist'[k].exp_at = blacklist[k].exp_at]_vars

(* ten seconds on, a used record has gone while a LIVE record, a blacklist
   entry, two rate-limit counters and a cached profile wait for their expiry *)
C22_Witness ==
    /\ now > 0
    /\ \E t \in DOMAIN marked : IsAbsent(t)
    /\ \E t \in DOMAIN refresh_store : IsLive(t)
    /\ blacklist # <<>>
    /\ cache # <<>>
    /\ Cardinality(DOMAIN rate) >= 2

-----------------------------------------------------------------------------
(* C23: within one window the counter of a rate-limit key never decreases,
   and its expiry is set once, by the increment that creates the key with
   count 1: every later increment of the window, accepted or rejected, adds
   one and leaves the expiry alone, so the key ends exactly one window
   length after the first call of its window. *)
C23_ExpirySetOnce ==
    /\ [](\A k \in DOMAIN rate :
             /\ k \in DOMAIN windows
             /\ rate[k].exp_at = windows[k].start + LimitW
             /\ rate[k].val = windows[k].n)
    /\ [][\A k \in DOMAIN rate' :
             IF k \in DOMAIN rate
             THEN /\ rate'[k].val \in {rate[k].val, rate[k].val + 1}
                  /\ rate'[k].exp_at = rate[k].exp_at
             ELSE /\ rate'[k].val = 1
                  /\ rate'[k].exp_at = now + LimitW]_vars

(* a window that began earlier holds more calls than the limit allows, and
   its key still ends one window length after its first call *)
C23_Witness ==
    \E k \in DOMAIN rate :
        /\ rate[k].val > LimitL + 1
        /\ windows[k].start < now
        /\ rate[k].exp_at = windows[k].start + LimitW

-----------------------------------------------------------------------------
(* C24: a rejected check_rate_limit call writes nothing but its own
   increment: the counter goes up by one, its expiry stays where the first
   call of the window put it, and no other store changes; and while the key
   lives with the limit used up, every further call is rejected. *)
LimiterStep(c) == calls[c].op = "limiter" /\ calls[c].pc = "script" /\ calls'[c].pc = "done"

C24_RejectedOnlyCounts ==
    [][\A c \in Slots :
          LimiterStep(c) =>
             LET k == RateKey("limiter", calls[c].user_id)
             IN  /\ calls'[c].err = "RateLimitExceeded" =>
                       /\ k \in DOMAIN rate /\ k \in DOMAIN rate'
                       /\ rate'[k].val = rate[k].val + 1
                       /\ rate'[k].exp_at = rate[k].exp_at
                       /\ DOMAIN rate' = DOMAIN rate
                       /\ UNCHANGED <<refresh_store, blacklist, cache, users>>
                 /\ (k \in DOMAIN rate /\ rate[k].val >= LimitL) =>
                       calls'[c].err = "RateLimitExceeded"]_vars

(* a call rejected after an earlier rejection in the same window, the key
   still ending where the first call of the window put it *)
C24_Witness ==
    \E c \in LimiterCalls :
        LET k == RateKey("limiter", calls[c].user_id)
        IN  /\ calls[c].err = "RateLimitExceeded"
            /\ calls[c].count = LimitL + 2
            /\ calls[c].wstart < now
            /\ k \in DOMAIN rate
            /\ rate[k].exp_at = calls[c].wstart + LimitW

-----------------------------------------------------------------------------
(* the calls on key k let through at a time in lo..hi *)
PassedIn(k, lo, hi) == {i \in DOMAIN Passed(k) : Passed(k)[i][1] >= lo /\ Passed(k)[i][1] <= hi}

(* the calls on key k let through in the window that began at s *)
PassedOf(k, s) == {i \in DOMAIN Passed(k) : Passed(k)[i][2] = s}

(* C25: for limit L and window W, of the calls on one key at most L succeed
   in one fixed window, and at most 2 * L succeed in any interval of length
   W, wherever it lies relative to the window boundaries. *)
C25_BurstBound ==
    \A k \in DOMAIN windows :
        /\ \A s \in 0..now : Cardinality(PassedOf(k, s)) <= LimitL
        /\ \A a \in 0..now : Cardinality(PassedIn(k, a, a + LimitW)) <= 2 * LimitL

(* 2 * L calls let through in an interval of length W that straddles the
   boundary between two windows *)
C25_Witness ==
    \E k \in DOMAIN windows : \E a \in 0..now :
        /\ Cardinality(PassedIn(k, a, a + LimitW)) = 2 * LimitL
        /\ \E i, j \in PassedIn(k, a, a + LimitW) : Passed(k)[i][2] # Passed(k)[j][2]
        /\ \E s \in 0..now : Cardinality(PassedOf(k, s)) = LimitL

-----------------------------------------------------------------------------
(* the step in which slot c serves a logout of the bearer token of h *)
LogoutStep(c, h) ==
    /\ calls[c].pc = "idle" /\ calls'[c].op = "logout"
    /\ calls'[c].hdr = h /\ typed_bearer(h)

(* C26: logout of a token that does not decode (wrong signature, no JWT,
   expired beyond the leeway) or whose expiry is not in the future succeeds
   and writes nothing: the blacklist and every other store are as before. *)
C26_DeadTokenLogoutIsNoOp ==
    [][\A c \in Slots : \A h \in Headers' :
          (LogoutStep(c, h) /\ (~decode(h.token, now) \/ h.token.exp <= now)) =>
             /\ calls'[c].pc = "done"
             /\ calls'[c].err = "Ok"
             /\ calls'[c].msg = "Logged out successfully"
             /\ blacklist' = blacklist
             /\ UNCHANGED <<refresh_store, rate, cache, users, revoked>>]_vars

(* a logout that succeeded on a token that decoded but had no time left,
   and one that succeeded on a forged token: neither is on the blacklist *)
C26_Witness ==
    \E c \in Slots :
        /\ calls[c].op = "logout" /\ ReturnedOk(c)
        /\ calls[c].hdr.token \in minted
        /\ decode(calls[c].hdr.token, calls[c].at)
        /\ calls[c].hdr.token.exp <= calls[c].at
        /\ ~Exists(blacklist, calls[c].hdr.token)

C26_WitnessForged ==
    \E c \in Slots :
        /\ calls[c].op = "logout" /\ ReturnedOk(c)
        /\ calls[c].hdr.token = Forged
        /\ ~Exists(blacklist, Forged)

-----------------------------------------------------------------------------
(* no call is between its first and its last step *)
Quiescent == \A c \in Slots : calls[c].pc \in {"idle", "done"}

(* C27: write-through keeps the cache consistent with the directory: once
   every in-flight get_user_profile and update_user_profile has completed,
   the profile cached for a user, if there is one, is the projection of the
   user's current row. *)
C27_CacheMatchesDirectory ==
    Quiescent =>
        \A u \in DOMAIN cache \cap DOMAIN users :
            /\ parses(cache[u].val)
            /\ from_str(cache[u].val) = ProfileOf(u, users[u])

-----------------------------------------------------------------------------
(* the step in which the call in slot c reads the cache *)
CacheRead(c) == calls[c].pc = "cache_get" /\ calls'[c] # calls[c]

(* the step in which the call in slot c writes the cache *)
CacheWrite(c) == calls[c].pc = "cache_set" /\ calls'[c].pc = "done"

(* C28: when the key holds a non-empty value that deserializes, get_or_fetch
   returns that value, does not run the fetcher and writes nothing; an
   entry's value and expiry change only when it is written, so an entry
   expires its ttl after it was last written, however often it is read. *)
C28_HitReadsOnly ==
    [][/\ \A c \in Slots :
            LET u == calls[c].user_id
            IN  (CacheRead(c) /\ u \in DOMAIN cache /\ cache[u].val # <<>> /\ parses(cache[u].val)) =>
                   /\ calls'[c].pc = "done" /\ calls'[c].err = "Ok"
                   /\ calls'[c].data = from_str(cache[u].val)
                   /\ ~calls'[c].fetched
                   /\ cache' = cache
       /\ \A k \in DOMAIN cache' :
            (k \notin DOMAIN cache \/ cache'[k] # cache[k]) =>
                /\ \E c \in Slots : CacheWrite(c) /\ calls[c].user_id = k
                /\ cache'[k].exp_at = now + CACHE_EXPIRE_USER_PROFILE]_vars

(* a read answered from an entry that was written at an earlier time and
   still expires its ttl after that write *)
C28_Witness ==
    \E c \in Slots :
        LET u == calls[c].user_id
        IN  /\ calls[c].op = "get_me" /\ ReturnedOk(c) /\ ~calls[c].fetched
            /\ u \in DOMAIN cache
            /\ calls[c].data = from_str(cache[u].val)
            /\ cache[u].exp_at < now + CACHE_EXPIRE_USER_PROFILE
            /\ cache[u].exp_at < calls[c].at + CACHE_EXPIRE_USER_PROFILE

-----------------------------------------------------------------------------
(* the step in which the fetcher of the call in slot c runs *)
FetchStep(c) == calls[c].pc = "fetch" /\ calls'[c] # calls[c]

(* C29: with a healthy store, a get_or_fetch that finds no entry runs its
   fetcher, once; when the fetcher succeeds the value is stored under the key
   with the given ttl and a read of the key right after is a hit that
   returns the same value; when the fetcher fails the call returns the
   fetcher's error and the cache is as it was. *)
C29_MissFetchesOnce ==
    [][\A c \in Slots :
          LET u == calls[c].user_id
          IN  /\ (CacheRead(c) /\ u \notin DOMAIN cache) =>
                    (calls'[c].pc = "fetch" /\ ~calls'[c].fetched /\ cache' = cache)
              /\ (calls'[c].pc = "fetch" /\ calls'[c] # calls[c]) => calls[c].pc = "cache_get"
              /\ FetchStep(c) =>
                    /\ cache' = cache
                    /\ IF u \in DOMAIN users
                       THEN /\ calls'[c].pc = "cache_set" /\ calls'[c].fetched
                            /\ calls'[c].data = ProfileOf(u, users[u])
                       ELSE /\ calls'[c].pc = "done" /\ calls'[c].err = "NotFound"
                            /\ ~calls'[c].fetched
              /\ (CacheWrite(c) /\ calls[c].op = "get_profile") =>
                    /\ calls'[c].err = "Ok" /\ calls'[c].data = calls[c].fetch_val
                    /\ cache'[u].exp_at = now + CACHE_EXPIRE_USER_PROFILE
                    /\ ReadHit(cache', u, TRUE)
                    /\ from_str(cache'[u].val) = calls'[c].data]_vars

(* a read that missed, fetched and stored a profile that a read would now
   be answered with *)
C29_Witness ==
    \E c \in GetCalls :
        LET u == calls[c].user_id
        IN  /\ ReturnedOk(c) /\ calls[c].fetched
            /\ ReadHit(cache, u, TRUE)
            /\ from_str(cache[u].val) = calls[c].data
            /\ calls[c].data.username = "alice"

(* a read that missed and whose fetcher failed: nothing is cached *)
C29_WitnessFailed ==
    \E c \in GetCalls :
        /\ Returned(c) /\ calls[c].err = "NotFound" /\ ~calls[c].fetched
        /\ calls[c].user_id \notin DOMAIN cache

-----------------------------------------------------------------------------
(* the step in which slot c serves a sign-in *)
LoginStep(c) == calls[c].pc = "idle" /\ calls'[c].op = "login"

(* the sign-in got as far as judging the credentials *)
Judged(r) == r.err \in {"Ok", "AuthError", "Forbidden"}

(* C30: a failed sign-in writes no refresh record, mints no token and
   returns none; an unknown account and a known account with a wrong
   password are answered alike, with the 'Invalid credentials'
   authentication error, whether the account is active or not; Forbidden is
   the answer exactly when the account is known, the password is right and
   the account is disabled. *)
C30_FailedLogin ==
    [][\A c \in Slots :
          LoginStep(c) =>
             LET r      == calls'[c]
                 found  == FindByAccount(users, r.arg)
                 right  == \E u \in found : users[u].password = r.password
                 active == \E u \in found : users[u].is_active
             IN  /\ r.pc = "done"
                 /\ r.err # "Ok" =>
                       /\ r.out = NoOut
                       /\ UNCHANGED <<refresh_store, next_uuid, minted, blacklist, users, cache>>
                 /\ (Judged(r) /\ ~right) =>
                       (r.err = "AuthError" /\ r.msg = "Invalid credentials" /\ r.status = 401)
                 /\ (Judged(r) /\ right /\ ~active) =>
                       (r.err = "Forbidden" /\ r.msg = "Account is disabled" /\ r.status = 403)
                 /\ r.err = "Forbidden" => (right /\ ~active)]_vars

LoginCalls == {c \in Slots : calls[c].op = "login" /\ Returned(c)}

(* a wrong password on a disabled account was answered as invalid
   credentials, while refresh records of earlier sign-ins exist *)
C30_Witness ==
    \E c \in LoginCalls :
        /\ calls[c].arg = "alice" /\ calls[c].password # users["u1"].password
        /\ ~users["u1"].is_active
        /\ calls[c].err = "AuthError" /\ calls[c].msg = "Invalid credentials"
        /\ calls[c].out = NoOut
        /\ refresh_store # <<>>

C30_WitnessUnknown ==
    \E c \in LoginCalls :
        /\ calls[c].arg = "mallory"
        /\ calls[c].err = "AuthError" /\ calls[c].msg = "Invalid credentials"

C30_WitnessDisabled ==
    \E c \in LoginCalls :
        /\ calls[c].arg = "alice" /\ calls[c].password = users["u1"].password
        /\ calls[c].err = "Forbidden"

C30_WitnessThrottled ==
    \E c \in LoginCalls : calls[c].err = "RateLimitExceeded" /\ calls[c].out = NoOut

-----------------------------------------------------------------------------
(* the step in which slot c takes a request for a protected route *)
RouteStep(c) == calls[c].pc = "idle" /\ calls'[c].op \in Routes

(* C31: the blacklist middleware fails closed: a request that carries a
   bearer token and whose blacklist lookup failed is answered with the
   store error at once; neither admin_guard, nor the Claims extractor, nor
   the handler runs for it, and it changes no store. *)
C31_FailClosed ==
    /\ [](\A c \in RouteCalls :
             "exists" \in calls[c].faults =>
                /\ strip_bearer(calls[c].hdr)
                /\ calls[c].pc = "done"
                /\ calls[c].err = "RedisError" /\ calls[c].status = 500
                /\ calls[c].verified_at = -1 /\ calls[c].verdict = ""
                /\ calls[c].checked = "" /\ ~calls[c].handled
                /\ calls[c].count = 0 /\ ~calls[c].fetched)
    /\ [][\A c \in Slots :
             (RouteStep(c) /\ "exists" \in calls'[c].faults) =>
                UNCHANGED <<users, refresh_store, rate, blacklist, cache, minted>>]_vars

(* a request with a verifiable administrator token that is not revoked was
   turned away because the blacklist did not answer *)
C31_Witness ==
    \E c \in RouteCalls :
        /\ "exists" \in calls[c].faults
        /\ calls[c].op = "register"
        /\ calls[c].hdr.token \in minted /\ calls[c].hdr.token.role = "admin"
        /\ ~calls[c].was_revoked
        /\ calls[c].err = "RedisError"
        /\ "u3" \notin DOMAIN users

-----------------------------------------------------------------------------
(* a logout step writes at most the blacklist key of the presented token and
   leaves the refresh records and every other store as they were *)
LogoutFrame ==
    \A c \in Slots :
        (calls[c].pc = "idle" /\ calls'[c].op = "logout") =>
            /\ UNCHANGED <<refresh_store, rate, cache, users, minted, succ>>
            /\ DOMAIN blacklist' \subseteq DOMAIN blacklist \cup {calls'[c].hdr.token}
            /\ \A k \in DOMAIN blacklist :
                  k # calls'[c].hdr.token => (k \in DOMAIN blacklist' /\ blacklist'[k] = blacklist[k])

(* the access token a refresh returns is not on the blacklist *)
RefreshedTokenUsable ==
    \A c \in Slots :
        (calls[c].op = "refresh" /\ calls[c].pc = "store"
            /\ calls'[c].pc = "done" /\ calls'[c].err = "Ok") =>
                ~Exists(blacklist', calls'[c].out.access_token)

C32_LogoutFrameOnly == [][LogoutFrame]_vars

(* C32: logout revokes the presented access token and nothing else: it
   writes at most that token's blacklist key and leaves every refresh record
   unchanged, so the session's refresh token is still LIVE after logout and
   a rotation of it returns a new access token that is not revoked. *)
C32_LogoutRevokesOneToken ==
    /\ [][LogoutFrame]_vars
    /\ [][RefreshedTokenUsable]_vars

-----------------------------------------------------------------------------
(* C33: refresh counts every call whose token's key was found, used or not,
   before it looks at the used-marker: the subject's counter goes up by one,
   a count above the limit is refused with the rate-limit error whether the
   token was a replay or LIVE, a replay counted within the limit is refused
   with Conflict, and a call whose token's key is absent touches no
   counter. *)
C33_ReplayConsumesBudget ==
    /\ [][\A c \in Slots :
             (calls[c].op = "refresh" /\ calls[c].pc = "limit" /\ calls'[c].pc # "limit") =>
                LET k == RateKey("refresh_token", calls[c].user_id)
                IN  /\ k \in DOMAIN rate'
                    /\ rate'[k].val = RateCount(rate, k) + 1
                    /\ calls'[c].count = rate'[k].val
                    /\ \A x \in DOMAIN rate' \ {k} : x \in DOMAIN rate /\ rate'[x] = rate[x]
                    /\ rate'[k].val > REFRESH_LIMIT =>
                          (calls'[c].pc = "done" /\ calls'[c].err = "RateLimitExceeded")
                    /\ (rate'[k].val <= REFRESH_LIMIT /\ calls[c].is_used) =>
                          (calls'[c].pc = "done" /\ calls'[c].err = "Conflict")
                    /\ (rate'[k].val <= REFRESH_LIMIT /\ ~calls[c].is_used) =>
                          calls'[c].pc = "find"]_vars
    /\ [][\A c \in Slots :
             (calls[c].pc = "idle" /\ calls'[c].op = "refresh") =>
                /\ rate' = rate
                /\ IsAbsent(calls'[c].rtok) => (calls'[c].pc = "done" /\ calls'[c].count = 0)]_vars

(* a refresh of a LIVE token was refused by the throttle although fewer
   tokens than the limit were ever issued: replays used the budget up *)
C33_Witness ==
    \E c \in RefreshCalls :
        /\ Returned(c) /\ calls[c].err = "RateLimitExceeded"
        /\ ~calls[c].is_used /\ IsLive(calls[c].rtok)
        /\ calls[c].count = REFRESH_LIMIT + 1
        /\ next_uuid < REFRESH_LIMIT
        /\ \E t \in DOMAIN refresh_store : IsUsed(t)

(* a replay was refused by the throttle *)
C33_WitnessReplay ==
    \E c \in RefreshCalls :
        /\ Returned(c) /\ calls[c].is_used /\ calls[c].err = "RateLimitExceeded"
        /\ calls[c].count = REFRESH_LIMIT + 1

-----------------------------------------------------------------------------
(* the actions and the subjects check_rate_limit is called with *)
LimitActions == {"login", "refresh_token", "read_me", "update_me", "register"}

LimitSubjects == {"alice", Sneaky, "u1", "u2"}

(* the pair the step is a check_rate_limit call on, as a set of at most one
   pair: a sign-in counts its account string, a refresh the subject of the
   token's record, a route handler the subject of the verified claims *)
CheckedPair(c) ==
    IF calls[c].pc = "idle" /\ calls'[c].op = "login"
    THEN {<<"login", calls'[c].arg>>}
    ELSE IF calls[c].op = "refresh" /\ calls[c].pc = "limit" /\ calls'[c].pc # "limit"
    THEN {<<"refresh_token", calls[c].user_id>>}
    ELSE IF calls[c].op \in Routes /\ calls[c].pc = "limit" /\ calls'[c].pc # "limit"
    THEN {<<RouteAction(calls[c].op), calls[c].user_id>>}
    ELSE {}

(* the counter of pair p in store s, as <<count, expiry>>; <<0, -1>> when there is none *)
CounterOf(s, p) ==
    IF RateKey(p[1], p[2]) \in DOMAIN s
    THEN <<s[RateKey(p[1], p[2])].val, s[RateKey(p[1], p[2])].exp_at>>
    ELSE <<0, -1>>

(* C34: the counters are independent per (action, subject): a
   check_rate_limit call on one pair adds one to that pair's counter and
   leaves the count and the expiry of the counter of every other action or
   subject as they were; the call on its own changes no refresh, blacklist
   or cache key. *)
C34_CountersIndependent ==
    [][\A c \in Slots : \A p \in CheckedPair(c) :
          /\ CounterOf(rate', p)[1] = CounterOf(rate, p)[1] + 1
          /\ \A a \in LimitActions, u \in LimitSubjects :
                <<a, u>> # p => CounterOf(rate', <<a, u>>) = CounterOf(rate, <<a, u>>)
          /\ Cardinality(DOMAIN rate') <= Cardinality(DOMAIN rate) + 1
          /\ p[1] # "login" => UNCHANGED <<refresh_store, blacklist, cache, users>>]_vars

(* counters of one action for two subjects, and of one subject for two
   actions, stand at different counts, and the account string that spells
   another counter's key has a counter of its own *)
C34_Witness ==
    /\ CounterOf(rate, <<"login", "alice">>)[1] = 1
    /\ CounterOf(rate, <<"login", Sneaky>>)[1] = 2
    /\ CounterOf(rate, <<"refresh_token", "u1">>)[1] = 2
    /\ CounterOf(rate, <<"read_me", "u1">>)[1] = 1
    /\ CounterOf(rate, <<"refresh_token", "u1">>)[2] # CounterOf(rate, <<"login", "alice">>)[2]

-----------------------------------------------------------------------------
RegisterCalls == {c \in Slots : calls[c].op = "register"}

(* the request in slot c presented a token that was not on the blacklist
   when it arrived, passes verification and carries the role admin *)
AdminAdmitted(c) ==
    /\ strip_bearer(calls[c].hdr)
    /\ ~calls[c].was_revoked
    /\ calls[c].hdr.token.sig = "valid" /\ decode(calls[c].hdr.token, calls[c].verified_at)
    /\ calls[c].hdr.token.role = "admin"

(* C35: POST /admin/register runs its handler only for a request whose token
   is not blacklisted, verifies and carries the role admin; a request with
   no token or an invalid or revoked one is refused with an authentication
   error, one whose role is user or no known role with Forbidden, and
   neither changes the directory; a row is inserted only by the handler, one
   at a time, with role user and is_active true, and never with a username
   or a phone another row holds: such a request is refused with Conflict and
   the directory stays as it was. *)
C35_AdminOnlyRegistration ==
    /\ [](\A c \in RegisterCalls :
             /\ calls[c].pc \in {"limit", "insert"} => AdminAdmitted(c)
             /\ (Returned(c) /\ ~AdminAdmitted(c)) =>
                   /\ calls[c].count = 0
                   /\ IF strip_bearer(calls[c].hdr) /\ ~calls[c].was_revoked
                         /\ decode(calls[c].hdr.token, calls[c].verified_at)
                      THEN calls[c].err = "Forbidden" /\ calls[c].status = 403
                      ELSE calls[c].err = "AuthError" /\ calls[c].status = 401)
    /\ [](\A u \in DOMAIN users :
             /\ u \notin DOMAIN InitUsers => (users[u].role = "user" /\ users[u].is_active)
             /\ \A v \in DOMAIN users :
                   (v # u) => /\ users[v].username # users[u].username
                              /\ users[v].phone = "none" \/ users[v].phone # users[u].phone)
    /\ [][\A c \in Slots :
             /\ (calls[c].pc # "insert" /\ calls'[c] # calls[c]) => users' = users
             /\ (calls[c].pc = "insert" /\ calls'[c] # calls[c]) =>
                   IF \E u \in DOMAIN users :
                         \/ users[u].username = calls'[c].arg
                         \/ calls'[c].phone # "none" /\ users[u].phone = calls'[c].phone
                   THEN /\ calls'[c].err = "Conflict" /\ calls'[c].status = 409
                        /\ users' = users
                   ELSE /\ AdminAdmitted(c)
                        /\ calls'[c].err = "Ok"
                        /\ Cardinality(DOMAIN users') = Cardinality(DOMAIN users) + 1
                        /\ \A u \in DOMAIN users : users'[u] = users[u]
                        /\ \E u \in DOMAIN users' \ DOMAIN users :
                              /\ users'[u].username = calls'[c].arg
                              /\ users'[u].phone = calls'[c].phone
                              /\ users'[u].role = "user" /\ users'[u].is_active]_vars

(* a registration by an administrator was refused for a phone another row
   holds, after requests with a user's token, with a validly signed token of
   an unknown role and with no token were turned away *)
C35_Witness ==
    \E c \in RegisterCalls :
        /\ Returned(c) /\ AdminAdmitted(c) /\ calls[c].err = "Conflict"
        /\ calls[c].arg = "dave" /\ calls[c].phone = "555"
        /\ "u3" \in DOMAIN users /\ users["u3"].username = "carol"
        /\ users["u3"].role = "user" /\ users["u3"].is_active

C35_WitnessUnknownRole ==
    \E c \in RegisterCalls :
        /\ Returned(c) /\ calls[c].hdr = [scheme |-> "Bearer", token |-> Foreign]
        /\ calls[c].err = "Forbidden" /\ calls[c].verdict = "ok"

C35_WitnessUserRole ==
    \E c \in RegisterCalls :
        /\ Returned(c) /\ calls[c].hdr.token \in minted /\ calls[c].hdr.token.role = "user"
        /\ strip_bearer(calls[c].hdr) /\ calls[c].err = "Forbidden"

C35_WitnessRevoked ==
    \E c \in RegisterCalls :
        /\ Returned(c) /\ calls[c].hdr.token \in minted /\ calls[c].hdr.token.role = "admin"
        /\ calls[c].was_revoked /\ calls[c].err = "AuthError"

C35_WitnessDuplicateName ==
    \E c \in RegisterCalls :
        /\ Returned(c) /\ calls[c].err = "Conflict" /\ calls[c].arg = "carol"
        /\ calls[c].phone = "none"

=============================================================================
